---- MODULE Spec2Model ----
(***************************************************************************)
(* A model of tgmux's session bridge runtime: the controller (bindings,    *)
(* per-window input serializers, monitor dispatcher), the per-topic        *)
(* output pusher with its global rate gate, message splitting, and the     *)
(* append-log (JSONL) monitor with the state store's offsets.              *)
(*                                                                         *)
(* The module holds several specifications over one set of variables.      *)
(* Each specification drives one part of the program and pins the          *)
(* variables of the other parts to their initial values.  The parts are    *)
(* cut where no value flows back: the controller ignores what              *)
(* Dispatcher.StartMonitor returns, and the monitors and pushers never     *)
(* reach back into the controller.                                         *)
(***************************************************************************)
EXTENDS Integers, Sequences, FiniteSets, TLC

VARIABLES
    \* ---- controller (src/bot/bot.go, src/bot/handlers.go) ----
    bindings,     \* state.Store data.Bindings: topic key -> Binding
    sendChans,    \* Bot.sendChans: window id -> channel (0 = no entry)
    chans,        \* every channel made so far: window, buffer, closed, its sendLoop
    tmuxWindows,  \* the multiplexer: window id -> "absent" | "shell" | "backend" | "dead"
    sent,         \* per window: the texts handed to ch <- text, in order
    written,      \* per window: the texts passed to tmux.SendText, in order
    \* ---- dispatcher (src/monitor/dispatcher.go) ----
    monitors,     \* Dispatcher.monitors: topic key -> monitor (0 = no entry)
    mons,         \* the monitors whose worker has not returned: slot -> topic, kind, state
    \* ---- output pushers and the rate gate (src/bot/stream.go) ----
    now,          \* time.Now().UnixMilli(), in ticks
    pauseUntil,   \* RateLimiter.pauseUntil (0 = never set)
    queue,        \* StreamPusher.queue per topic
    worker,       \* StreamPusher.worker per topic: where it is and what it holds
    toolMsgIDs,   \* StreamPusher.toolMsgIDs per topic: tool_use_id -> message (0 = none)
    enqueued,     \* per topic: Enqueue calls so far
    delivered,    \* per topic: the calls that succeeded, in order: a new message or an edit of message msg
    lastCall,     \* the most recent SendMessage / EditMessageText call and the gate when it began
    failures,     \* API calls that returned an error so far
    \* ---- message splitting and formatting (src/bot/stream.go, src/bot/markdown.go) ----
    msgText,      \* the text of a task handed to sendMessage, as bytes
    msgType,      \* its content type ("" = not sent yet)
    outTexts,     \* the texts handed to SendMessage / EditMessageText for it
    \* ---- append-log monitor and the store's offsets (src/unnamed/part_001, src/state/store.go) ----
    fsize,        \* the log directory: path -> size in bytes (-1 = no such file)
    offMem,       \* Store.data.Offsets[topic] in memory
    offDisk,      \* the same entry in the state file
    jm,           \* the topic's JSONLMonitor
    lastSet,      \* the most recent SetOffset call, with the offset the store held for that file before it
    \* ---- message handlers at "ch <- text" (src/bot/handlers.go) ----
    waiting,      \* per channel: the texts of the handlers blocked in their send, in order
    \* ---- a topic's resources over its life (src/bot/bot.go, src/bot/handlers.go, src/bot/stream.go) ----
    offsets,      \* Store.data.Offsets: topic key -> byte offset (-1 = no entry)
    states,       \* Bot.states: topic key -> Phase and whether SelectedDir is set
    pushers,      \* PusherManager.pushers: whether the topic key has an entry
    statuses,     \* StatusPoller.statuses: whether the topic key has an entry
    started,      \* per topic: the byte offset its registered monitor was built with (-1 = none)
    recovery,     \* recoverBindings: its stage and the keys of its snapshot still to visit
    unbinding,    \* per topic: the unbind call that is past DeleteOffset and before closeSendChan
    polling,      \* StatusPoller.pollAll: the keys of its snapshot still to poll
    lastText,     \* the most recent text message defaultHandler took, and what it did with it
    \* ---- graceful shutdown (src/prd/claude-tg-bridge-prd.md, src/bot/bot.go) ----
    shutdown,     \* main after the signal: the step it has completed, and the status poller's loop
    \* ---- the store's persister (src/state/store.go) ----
    store,        \* Store: the document in memory and on disk, saveCh, asyncSaveLoop, the Saves under way
    \* ---- the authorization gate (src/bot/bot.go, src/unnamed/part_002) ----
    update,       \* auth.Checker's allowedUsers, and the latest update with what authMiddleware did with it
    \* ---- one call of sendWithRetry / editWithRetry (src/bot/stream.go) ----
    attempt,      \* its params.ParseMode, where it is, and the platform calls it has made with their results
    \* ---- one JSONDiffMonitor (src/monitor/json_diff.go) ----
    diffMon,      \* logs.json, lastMessageID, the stored offset, the 30 s timer, the worker and what it emitted
    \* ---- the Claude line parser of a JSONLMonitor (src/unnamed/part_001) ----
    parser,       \* pendingTools, and the tool_use ids still waiting for their result
    \* ---- one tracked log file and its tracker (src/unnamed/part_001) ----
    logFile,      \* the pieces written so far, tracker.byteOffset, and the lines parsed
    \* ---- the status poller (src/unnamed/part_000) ----
    status,       \* the entries' MessageID and LastText, each pane's last line, the call under way
    \* ---- the recent directories (src/state/store.go) ----
    dirs,         \* Store.recentMax, data.Dirs.Recent, and the latest AddRecent with the list it found
    \* ---- handlers between getOrCreateSendChan and their send (src/bot/handlers.go) ----
    inHand        \* per topic, the channel its handler got from getOrCreateSendChan and has yet to send on

ctlVars == <<bindings, sendChans, chans, tmuxWindows, sent, written>>
dispVars == <<monitors, mons>>
pushVars == <<now, pauseUntil, queue, worker, toolMsgIDs, enqueued, delivered, lastCall, failures>>
splitVars == <<msgText, msgType, outTexts>>
jsonlVars == <<fsize, offMem, offDisk, jm, lastSet>>
inputVars == <<waiting>>
lifeVars == <<offsets, states, pushers, statuses, started, recovery, unbinding, polling, lastText>>
lateVars == <<status, dirs, inHand>>
auxVars == <<update, attempt, diffMon, parser, logFile, lateVars>>
endVars == <<shutdown, store, auxVars>>
restVars == <<inputVars, lifeVars, endVars>>
vars == <<ctlVars, dispVars, pushVars, splitVars, jsonlVars, restVars>>

-----------------------------------------------------------------------------
\* Bounds of the model

MaxWindows == 2      \* window ids the multiplexer hands out
MaxChans == 2        \* send channels whose sendLoop has not returned
MaxTexts == 2        \* texts sent to one window over a run
MaxMonitors == 3     \* monitors whose worker has not returned
ChanCap == 2         \* capacity of a send channel (100 in the program)
MaxTasks == 3        \* Enqueue calls over a run, all pushers together
QueueCap == 2        \* capacity of a pusher's queue (100 in the program)
MergeMax == 5        \* tryMerge's mergeMax (3800 in the program)
MsgLimit == 6        \* the message length limit (4096 in the program)
MaxClock == 3        \* ticks of the clock
MaxBackOff == 2      \* longest pause BackOff sets, in ticks (30 s, jittered, in the program)
MaxFailures == 2     \* API calls that return an error over a run
MaxTokens == 5       \* tokens a message text is made of
MaxSize == 2         \* bytes a log file grows to
MaxMutations == 2    \* changes of the store's document over a run
MaxInputs == 3       \* texts the handlers send to one window over a run

Topics == {"t1", "t2"}
Windows == 1..MaxWindows
BackendTypes == {"claude", "codex", "gemini", "bash"}
Shells == {"bash", "zsh", "sh", "fish", "dash", "ksh", "csh", "tcsh"}

NoBinding == [window |-> 0, backend |-> "", status |-> ""]
Bound(key) == bindings[key] # NoBinding

-----------------------------------------------------------------------------
\* Terminal adapter (src/tmux/manager.go)

IsWindowAlive(w) == w \in Windows /\ tmuxWindows[w] \in {"shell", "backend"}

PaneCommand(w) ==
    IF ~IsWindowAlive(w) THEN ""
    ELSE IF tmuxWindows[w] = "shell" THEN "bash" ELSE "node"

IsBackendAlive(w) ==
    LET proc == PaneCommand(w) IN
    IF proc = "" THEN FALSE
    ELSE IF proc \in Shells THEN FALSE
    ELSE TRUE

KillWindow(tw, w) ==
    IF w \in Windows /\ tw[w] \in {"shell", "backend"} THEN [tw EXCEPT ![w] = "dead"] ELSE tw

-----------------------------------------------------------------------------
\* Monitor dispatcher (src/monitor/dispatcher.go)

MonitorSlots == 1..MaxMonitors
FreeMonitor == [topic |-> "", kind |-> "", state |-> "free", fallback |-> FALSE]
FreeMonitorSlot(ms) == CHOOSE i \in MonitorSlots : ms[i].state = "free" /\ \A j \in MonitorSlots : ms[j].state = "free" => i <= j
HasFreeMonitorSlot(ms) == \E i \in MonitorSlots : ms[i].state = "free"

\* Monitor.Stop: cancels the worker's context; the worker returns on its own
\* later, and nothing is left of a monitor whose worker had returned before.
MonitorStop(ms, i) ==
    IF i = 0 THEN ms
    ELSE IF ms[i].state = "gaveup" THEN [ms EXCEPT ![i] = FreeMonitor]
    ELSE [ms EXCEPT ![i].state = IF @ = "running" THEN "cancelled" ELSE @]

NoStopExisting(ms, mp, key) == ms

\* StartMonitor, "if existing, ok := d.monitors[topicKey]; ok { existing.Stop() ... }"
StopExisting(ms, mp, key) == MonitorStop(ms, mp[key])

\* The monitor StartMonitor builds for a backend type.
MonitorKind(bt) ==
    CASE bt \in {"claude", "codex"} -> "jsonl"
      [] bt = "gemini" -> "jsondiff"
      [] bt = "bash" -> "pane"
      [] OTHER -> "pane"

\* PaneMonitor.Start: starts the polling worker and returns nil
PaneMonitorStart == TRUE

\* mon.Start(ctx) of the monitor built for the backend type: startOK is
\* whether the log directory can be watched
StrategyStarts(bt, startOK) ==
    IF MonitorKind(bt) = "pane" THEN PaneMonitorStart ELSE startOK

\* a failed Start is returned whatever the backend type
StartMonitorErrNoFallback(bt, startOK) ==
    IF StrategyStarts(bt, startOK) THEN "" ELSE "monitor"

\* The error StartMonitor returns ("" for nil): a failed Start of a non-bash
\* binding's monitor is answered with a second PaneMonitor, whose failure is
\* returned; a failed Start of a bash binding's monitor is returned.
StartMonitorErr(bt, startOK) ==
    IF StrategyStarts(bt, startOK) THEN ""
    ELSE IF bt # "bash" THEN (IF PaneMonitorStart THEN "" ELSE "fallback pane monitor")
    ELSE "pane monitor"

\* The monitors after StartMonitor(key, binding): the existing monitor is
\* stopped, and the monitor that started is the new one.
StartMonitorMons(ms, mp, key, bt, startOK) ==
    IF StartMonitorErr(bt, startOK) # "" THEN StopExisting(ms, mp, key)
    ELSE [StopExisting(ms, mp, key) EXCEPT
            ![FreeMonitorSlot(ms)] =
                IF StrategyStarts(bt, startOK)
                THEN [topic |-> key, kind |-> MonitorKind(bt), state |-> "running", fallback |-> FALSE]
                ELSE [topic |-> key, kind |-> "pane", state |-> "running", fallback |-> TRUE]]

\* d.monitors after StartMonitor(key, binding): the existing entry is
\* deleted, and the new monitor is registered when one started.
StartMonitorMap(ms, mp, key, bt, startOK) ==
    [mp EXCEPT ![key] = IF StartMonitorErr(bt, startOK) # "" THEN 0 ELSE FreeMonitorSlot(ms)]

\* StopMonitor(key) for every key of keys
StopMonitorMons(ms, mp, keys) ==
    [i \in MonitorSlots |->
        IF \E k \in keys : mp[k] = i THEN MonitorStop(ms, i)[i] ELSE ms[i]]

StopMonitorMap(mp, keys) == [k \in Topics |-> IF k \in keys THEN 0 ELSE mp[k]]

-----------------------------------------------------------------------------
\* Input serializer (src/bot/bot.go)

ChanSlots == 1..MaxChans
FreeChan == [window |-> 0, buf |-> <<>>, closed |-> FALSE, running |-> FALSE]
NewChan(w) == [window |-> w, buf |-> <<>>, closed |-> FALSE, running |-> TRUE]
IsFreeChan(cs, c) == cs[c].window = 0
HasFreeChan(cs) == \E c \in ChanSlots : IsFreeChan(cs, c)
FreeChanSlot(cs) == CHOOSE c \in ChanSlots : IsFreeChan(cs, c) /\ \A d \in ChanSlots : IsFreeChan(cs, d) => c <= d

\* getOrCreateSendChan: a window without an entry gets a new channel and a
\* new sendLoop goroutine.
getOrCreateSendChanMap(sc, cs, w) ==
    IF sc[w] = 0 THEN [sc EXCEPT ![w] = FreeChanSlot(cs)] ELSE sc

getOrCreateSendChanChans(sc, cs, w) ==
    IF sc[w] = 0 THEN [cs EXCEPT ![FreeChanSlot(cs)] = NewChan(w)] ELSE cs

\* closeSendChan: close(ch); delete(b.sendChans, windowID)
closeSendChanMap(sc, w) == IF sc[w] # 0 THEN [sc EXCEPT ![w] = 0] ELSE sc

closeSendChanChans(sc, cs, w) ==
    IF sc[w] # 0 THEN [cs EXCEPT ![sc[w]].closed = TRUE] ELSE cs

\* sendLoop, one iteration of "for text := range ch": b.tmux.SendText(windowID, text)
SendLoopWrite(c) ==
    /\ chans[c].running
    /\ chans[c].buf # <<>>
    /\ written' = [written EXCEPT ![chans[c].window] = Append(@, Head(chans[c].buf))]
    /\ chans' = [chans EXCEPT ![c].buf = Tail(@)]
    /\ UNCHANGED <<bindings, sendChans, tmuxWindows, sent, dispVars, pushVars, splitVars, jsonlVars, restVars>>

\* sendLoop: the range loop ends once the channel is closed and drained.
SendLoopExit(c) ==
    /\ chans[c].running
    /\ chans[c].closed
    /\ chans[c].buf = <<>>
    /\ chans' = [chans EXCEPT ![c] = FreeChan]
    /\ UNCHANGED <<bindings, sendChans, tmuxWindows, sent, written, dispVars, pushVars, splitVars, jsonlVars, restVars>>

-----------------------------------------------------------------------------
\* Controller handlers (src/bot/handlers.go), as far as they touch the store's
\* bindings, the multiplexer and the input serializers

\* unbind(key, binding) for every key of keys, all bound to window w:
\* DeleteBinding and closeSendChan.
unbind(keys, w) ==
    /\ bindings' = [k \in Topics |-> IF k \in keys THEN NoBinding ELSE bindings[k]]
    /\ sendChans' = closeSendChanMap(sendChans, w)
    /\ chans' = closeSendChanChans(sendChans, chans, w)

\* ch := b.getOrCreateSendChan(w); ch <- text
EnqueueText(w) ==
    LET sc == getOrCreateSendChanMap(sendChans, chans, w)
        cs == getOrCreateSendChanChans(sendChans, chans, w)
        c == sc[w]
    IN  /\ sendChans[w] = 0 => HasFreeChan(chans)
        /\ Len(sent[w]) < MaxTexts
        /\ Len(cs[c].buf) < ChanCap
        /\ sendChans' = sc
        /\ chans' = [cs EXCEPT ![c].buf = Append(@, Len(sent[w]) + 1)]
        /\ sent' = [sent EXCEPT ![w] = Append(@, Len(@) + 1)]

\* defaultHandler for a text message in topic key, past the phase switch.
\* bang: the text starts with "!" (sent with SendKeys, past the queue).
DefaultHandler(key, bang) ==
    LET b == bindings[key] IN
    \/ /\ Bound(key)
       /\ ~IsWindowAlive(b.window) \/ ~IsBackendAlive(b.window)
       /\ unbind({key}, b.window)
       /\ UNCHANGED <<tmuxWindows, sent, written, dispVars, pushVars, splitVars, jsonlVars, restVars>>
    \/ /\ Bound(key)
       /\ IsWindowAlive(b.window) /\ IsBackendAlive(b.window)
       /\ bang
       /\ UNCHANGED vars
    \/ /\ Bound(key)
       /\ IsWindowAlive(b.window) /\ IsBackendAlive(b.window)
       /\ ~bang
       /\ EnqueueText(b.window)
       /\ UNCHANGED <<bindings, tmuxWindows, written, dispVars, pushVars, splitVars, jsonlVars, restVars>>
    \/ /\ ~Bound(key)
       /\ UNCHANGED vars

\* handleKill (/kill) and handleTopicClosed: KillWindow, then unbind.
HandleKill(key) ==
    /\ Bound(key)
    /\ tmuxWindows' = KillWindow(tmuxWindows, bindings[key].window)
    /\ unbind({key}, bindings[key].window)
    /\ UNCHANGED <<sent, written, dispVars, pushVars, splitVars, jsonlVars, restVars>>

\* handleCallback, "kill:<window>": KillWindow, then unbind every binding of it.
CallbackKill(w) ==
    /\ tmuxWindows[w] # "absent"
    /\ tmuxWindows' = KillWindow(tmuxWindows, w)
    /\ unbind({k \in Topics : bindings[k].window = w}, w)
    /\ UNCHANGED <<sent, written, dispVars, pushVars, splitVars, jsonlVars, restVars>>

\* handleCmd (/cmd <arg>): the text goes to the window's queue, with no liveness check.
HandleCmd(key) ==
    /\ Bound(key)
    /\ EnqueueText(bindings[key].window)
    /\ UNCHANGED <<bindings, tmuxWindows, written, dispVars, pushVars, splitVars, jsonlVars, restVars>>

\* The binding of a new or adopted session: SetBinding and getOrCreateSendChan.
BindTo(key, w, bt) ==
    /\ sendChans[w] = 0 => HasFreeChan(chans)
    /\ bindings' = [bindings EXCEPT ![key] = [window |-> w, backend |-> bt, status |-> "running"]]
    /\ sendChans' = getOrCreateSendChanMap(sendChans, chans, w)
    /\ chans' = getOrCreateSendChanChans(sendChans, chans, w)

\* createSession, reached from the "backend:<type>" callback with a directory
\* selected. launched: the backend command gets to run in the new window.
createSession(key, bt, launched) ==
    LET free == {w \in Windows : tmuxWindows[w] = "absent"} IN
    /\ free # {}                                   \* NewWindow succeeds
    /\ LET w == CHOOSE x \in free : \A y \in free : x <= y IN
       /\ tmuxWindows' = [tmuxWindows EXCEPT ![w] =
                             IF bt # "bash" /\ launched THEN "backend" ELSE "shell"]
       /\ BindTo(key, w, bt)
    /\ UNCHANGED <<sent, written, dispVars, pushVars, splitVars, jsonlVars, restVars>>

\* bindExisting, reached from the "bind:<window>" callback of a session list
\* (the list may have been shown at any earlier time).
bindExisting(key, w) ==
    /\ IsBackendAlive(w)
    /\ BindTo(key, w, "unknown")
    /\ UNCHANGED <<tmuxWindows, sent, written, dispVars, pushVars, splitVars, jsonlVars, restVars>>

\* "ch := b.getOrCreateSendChan(w); ch <- text" with the handler's position:
\* the send completes when the buffer has room, otherwise the handler's
\* goroutine stays in the send until the sendLoop has taken a text.
ChanSend(w) ==
    LET sc == getOrCreateSendChanMap(sendChans, chans, w)
        cs == getOrCreateSendChanChans(sendChans, chans, w)
        c == sc[w]
        text == Len(sent[w]) + 1
    IN  /\ sendChans[w] = 0 => HasFreeChan(chans)
        /\ Len(sent[w]) < MaxInputs
        /\ sendChans' = sc
        /\ sent' = [sent EXCEPT ![w] = Append(@, text)]
        /\ IF Len(cs[c].buf) < ChanCap /\ waiting[c] = <<>>
           THEN /\ chans' = [cs EXCEPT ![c].buf = Append(@, text)]
                /\ UNCHANGED waiting
           ELSE /\ chans' = cs
                /\ waiting' = [waiting EXCEPT ![c] = Append(@, text)]

\* defaultHandler for a text without "!" in a bound topic whose window and
\* backend are alive
DefaultHandlerSend(key) ==
    /\ Bound(key)
    /\ IsWindowAlive(bindings[key].window) /\ IsBackendAlive(bindings[key].window)
    /\ ChanSend(bindings[key].window)
    /\ UNCHANGED <<bindings, tmuxWindows, written, dispVars, pushVars, splitVars, jsonlVars, lifeVars, endVars>>

\* handleCmd (/cmd <arg>) in a bound topic
HandleCmdSend(key) ==
    /\ Bound(key)
    /\ ChanSend(bindings[key].window)
    /\ UNCHANGED <<bindings, tmuxWindows, written, dispVars, pushVars, splitVars, jsonlVars, lifeVars, endVars>>

\* A handler blocked in "ch <- text" completes its send: the buffer has room again.
HandlerResumes(c) ==
    /\ waiting[c] # <<>>
    /\ ~chans[c].closed
    /\ Len(chans[c].buf) < ChanCap
    /\ chans' = [chans EXCEPT ![c].buf = Append(@, Head(waiting[c]))]
    /\ waiting' = [waiting EXCEPT ![c] = Tail(@)]
    /\ UNCHANGED <<bindings, sendChans, tmuxWindows, sent, written, dispVars, pushVars, splitVars, jsonlVars, lifeVars, endVars>>

-----------------------------------------------------------------------------
\* The multiplexer's windows, seen from the controller

BackendExits(w) ==
    /\ tmuxWindows[w] = "backend"
    /\ tmuxWindows' = [tmuxWindows EXCEPT ![w] = "shell"]
    /\ UNCHANGED <<bindings, sendChans, chans, sent, written, dispVars, pushVars, splitVars, jsonlVars, restVars>>

BackendStarts(w) ==
    /\ tmuxWindows[w] = "shell"
    /\ tmuxWindows' = [tmuxWindows EXCEPT ![w] = "backend"]
    /\ UNCHANGED <<bindings, sendChans, chans, sent, written, dispVars, pushVars, splitVars, jsonlVars, restVars>>

WindowDies(w) ==
    /\ tmuxWindows[w] \in {"shell", "backend"}
    /\ tmuxWindows' = [tmuxWindows EXCEPT ![w] = "dead"]
    /\ UNCHANGED <<bindings, sendChans, chans, sent, written, dispVars, pushVars, splitVars, jsonlVars, restVars>>

-----------------------------------------------------------------------------
\* Rate gate and output pusher (src/bot/stream.go)

ToolIDs == {"u1"}
NoTask == [ids |-> <<>>, type |-> "", len |-> 0, tool |-> ""]
IdleWorker == [pc |-> "select", op |-> "", mode |-> "run", task |-> NoTask, left |-> 0, overflow |-> NoTask, msg |-> 0]

\* RateLimiter.Wait returns nil: never paused, or the pause is over.
WaitReturns == pauseUntil = 0 \/ now >= pauseUntil

\* The instant a call begins inside a pause.
Paused == now < pauseUntil

\* splitMessage(text, 4096) for a text with no newline and no fence: the
\* number of hard-cut chunks.
NumChunks(len) == IF len <= MsgLimit THEN 1 ELSE (len + MsgLimit - 1) \div MsgLimit

\* sendMessage(ctx, task), up to its first Wait: a tool_result whose
\* tool_use_id is tracked becomes an edit (the entry is deleted), anything
\* else is split into chunks.
IsPairedResult(tm, task) ==
    task.type = "tool_result" /\ task.tool # "" /\ tm[task.tool] # 0

sendMessageWorker(wk, tm, task) ==
    IF IsPairedResult(tm, task)
    THEN [wk EXCEPT !.pc = "wait", !.op = "edit", !.task = task, !.left = 1, !.msg = tm[task.tool]]
    ELSE [wk EXCEPT !.pc = "wait", !.op = "send", !.task = task, !.left = NumChunks(task.len), !.msg = 0]

\* "delete(p.toolMsgIDs, task.ToolUseID)" left out
KeepPairing(tm, task) == tm

\* sendMessage, "delete(p.toolMsgIDs, task.ToolUseID)" for a paired tool_result
ConsumePairing(tm, task) == [tm EXCEPT ![task.tool] = 0]

sendMessageTools(tm, task) ==
    IF IsPairedResult(tm, task) THEN ConsumePairing(tm, task) ELSE tm

\* The worker after sendMessage returned: the overflow task is sent next,
\* otherwise the worker is back at its select (or at drain's).
AfterSendWorker(wk, tm) ==
    IF wk.overflow # NoTask
    THEN sendMessageWorker([wk EXCEPT !.overflow = NoTask], tm, wk.overflow)
    ELSE [wk EXCEPT !.pc = IF wk.mode = "drain" THEN "drain" ELSE "select",
                    !.op = "", !.task = NoTask, !.left = 0, !.msg = 0]

AfterSendTools(wk, tm) ==
    IF wk.overflow # NoTask THEN sendMessageTools(tm, wk.overflow) ELSE tm

\* tryMerge, "text += "\n\n" + next.Text", in the order the tasks were taken
mergeTextReversed(text, next) ==
    [text EXCEPT !.ids = next.ids \o @, !.len = next.len + 2 + @]

mergeText(text, next) ==
    [text EXCEPT !.ids = @ \o next.ids, !.len = @ + 2 + next.len]

\* only the length stops a merge
UnmergeableBySize(text, next) == text.len + next.len + 2 > MergeMax

\* tryMerge, "next.ContentType != first.ContentType ||
\* RuneCount(text)+RuneCount(next.Text)+2 > mergeMax"
Unmergeable(text, next) ==
    next.type # text.type \/ text.len + next.len + 2 > MergeMax

\* "select { case p.queue <- task: default: }" on a channel that is full never
\* takes the task
OfferBlind(q, task) == Append(q, task)

\* Enqueue, "select { case p.queue <- task: default: slog.Warn(...) }": the
\* queue after the offer
Offer(q, task) == IF Len(q) < QueueCap THEN Append(q, task) ELSE q

\* StreamPusher.Enqueue: non-blocking, a full queue drops the task.
Enqueue(p, type, len) ==
    LET task == [ids |-> <<enqueued[p] + 1>>, type |-> type, len |-> len,
                 tool |-> IF type \in {"tool_use", "tool_result"} THEN "u1" ELSE ""]
    IN  /\ enqueued["t1"] + enqueued["t2"] < MaxTasks
        /\ enqueued' = [enqueued EXCEPT ![p] = @ + 1]
        /\ queue' = [queue EXCEPT ![p] = Offer(@, task)]
        /\ UNCHANGED <<ctlVars, dispVars, splitVars, jsonlVars, restVars, now, pauseUntil, worker, toolMsgIDs, delivered, lastCall, failures>>

\* worker, "case task := <-p.queue", and the head of tryMerge
WorkerTake(p) ==
    LET task == Head(queue[p]) IN
    /\ worker[p].pc = "select"
    /\ queue[p] # <<>>
    /\ queue' = [queue EXCEPT ![p] = Tail(@)]
    /\ IF task.type \in {"text", "thinking"}
       THEN /\ worker' = [worker EXCEPT ![p] = [@ EXCEPT !.pc = "merge", !.task = [task EXCEPT !.tool = ""]]]
            /\ UNCHANGED toolMsgIDs
       ELSE /\ worker' = [worker EXCEPT ![p] = sendMessageWorker(@, toolMsgIDs[p], task)]
            /\ toolMsgIDs' = [toolMsgIDs EXCEPT ![p] = sendMessageTools(@, task)]
    /\ UNCHANGED <<ctlVars, dispVars, splitVars, jsonlVars, restVars, now, pauseUntil, enqueued, delivered, lastCall, failures>>

\* tryMerge, one turn of its loop: the next queued task is merged, or is the
\* overflow, or the queue is empty.
WorkerMerge(p) ==
    LET wk == worker[p]
        text == wk.task
    IN
    /\ wk.pc = "merge"
    /\ IF queue[p] = <<>>
       THEN /\ worker' = [worker EXCEPT ![p] = sendMessageWorker(wk, toolMsgIDs[p], text)]
            /\ UNCHANGED queue
       ELSE LET next == Head(queue[p]) IN
            /\ queue' = [queue EXCEPT ![p] = Tail(@)]
            /\ IF Unmergeable(text, next)
               THEN worker' = [worker EXCEPT ![p] =
                        sendMessageWorker([wk EXCEPT !.overflow = next], toolMsgIDs[p], text)]
               ELSE worker' = [worker EXCEPT ![p] = [wk EXCEPT !.task = mergeText(text, next)]]
    /\ UNCHANGED <<ctlVars, dispVars, splitVars, jsonlVars, restVars, now, pauseUntil, toolMsgIDs, enqueued, delivered, lastCall, failures>>

\* RateLimiter.Wait returns nil, in sendMessage and editToolMessage ("wait")
\* and in sendWithRetry and editWithRetry after BackOff ("rewait").
Wait(p) ==
    /\ worker[p].pc \in {"wait", "rewait"}
    /\ WaitReturns
    /\ worker' = [worker EXCEPT ![p].pc = IF @ = "wait" THEN "call" ELSE "retry"]
    /\ UNCHANGED <<ctlVars, dispVars, splitVars, jsonlVars, restVars, now, pauseUntil, queue, toolMsgIDs, enqueued, delivered, lastCall, failures>>


\* RateLimiter.Wait returns ctx.Err(): the pause is on and the worker's
\* context is cancelled.  sendMessage and editToolMessage return; after a
\* failed editWithRetry, editToolMessage goes on to its fallback send.
WaitCancelled(p) ==
    LET wk == worker[p] IN
    /\ wk.pc \in {"wait", "rewait"}
    /\ wk.mode = "cancelled"
    /\ ~WaitReturns
    /\ IF wk.pc = "rewait" /\ wk.op = "edit"
       THEN /\ worker' = [worker EXCEPT ![p] = [wk EXCEPT !.op = "fallback", !.pc = "call"]]
            /\ UNCHANGED toolMsgIDs
       ELSE /\ worker' = [worker EXCEPT ![p] = AfterSendWorker(wk, toolMsgIDs[p])]
            /\ toolMsgIDs' = [toolMsgIDs EXCEPT ![p] = AfterSendTools(wk, @)]
    /\ UNCHANGED <<ctlVars, dispVars, splitVars, jsonlVars, restVars, now, pauseUntil, queue, enqueued, delivered, lastCall, failures>>

\* The outcomes an API call can have: a cancelled context fails it at once.
Outcomes(wk) ==
    IF wk.mode = "cancelled" THEN {"err"}
    ELSE IF failures < MaxFailures THEN {"ok", "429", "err"}
    ELSE {"ok"}

\* The worker and the tool map after a call that delivered: the next chunk,
\* or the end of sendMessage; the last chunk of a tool_use is recorded.
DeliveredWorker(wk, tm) ==
    IF wk.op = "send" /\ wk.left > 1
    THEN [wk EXCEPT !.pc = "wait", !.left = @ - 1]
    ELSE AfterSendWorker(wk, tm)

RecordTool(wk, tm) ==
    IF wk.op = "send" /\ wk.task.type = "tool_use" /\ wk.task.tool # "" /\ wk.left = 1
    THEN [tm EXCEPT ![wk.task.tool] = wk.task.ids[1]]
    ELSE tm

DeliveredTools(wk, tm) ==
    IF wk.op = "send" /\ wk.left > 1 THEN tm ELSE AfterSendTools(wk, RecordTool(wk, tm))

\* a retry that is answered with an error is followed by another attempt
NextAttemptAlways(pc, outcome) == IF outcome = "429" THEN "backoff" ELSE "plain"

\* sendWithRetry and editWithRetry, what follows an attempt that returned an
\* error: after the first attempt, BackOff, Wait and a retry for a 429 and a
\* plain-text attempt for another error; after a second attempt, nothing
\* ("" = the error is returned).
NextAttempt(pc, outcome) ==
    IF pc = "call" THEN (IF outcome = "429" THEN "backoff" ELSE "plain") ELSE ""

\* One call of tgBot.SendMessage or tgBot.EditMessageText with its result:
\* the first attempt of sendWithRetry / editWithRetry ("call"), the attempt
\* after a 429 ("retry"), the plain-text attempt after another error ("plain").
ApiCall(p, outcome) ==
    LET wk == worker[p] IN
    /\ wk.pc \in {"call", "retry", "plain"}
    /\ outcome \in Outcomes(wk)
    /\ lastCall' = [topic |-> p, op |-> wk.op, pc |-> wk.pc, paused |-> Paused]
    /\ failures' = IF outcome = "ok" \/ wk.mode = "cancelled" THEN failures ELSE failures + 1
    /\ IF outcome = "ok"
       THEN /\ delivered' = [delivered EXCEPT ![p] =
                   Append(@, [op |-> IF wk.op = "edit" THEN "edit" ELSE "send", ids |-> wk.task.ids,
                              type |-> wk.task.type, msg |-> wk.msg])]
            /\ worker' = [worker EXCEPT ![p] = DeliveredWorker(wk, RecordTool(wk, toolMsgIDs[p]))]
            /\ toolMsgIDs' = [toolMsgIDs EXCEPT ![p] = DeliveredTools(wk, @)]
       ELSE /\ UNCHANGED delivered
            /\ IF NextAttempt(wk.pc, outcome) # ""
               THEN /\ worker' = [worker EXCEPT ![p].pc = NextAttempt(wk.pc, outcome)]
                    /\ UNCHANGED toolMsgIDs
               ELSE IF wk.op = "edit"
               THEN /\ worker' = [worker EXCEPT ![p] = [wk EXCEPT !.op = "fallback", !.pc = "call"]]
                    /\ UNCHANGED toolMsgIDs
               ELSE /\ worker' = [worker EXCEPT ![p] = AfterSendWorker(wk, toolMsgIDs[p])]
                    /\ toolMsgIDs' = [toolMsgIDs EXCEPT ![p] = AfterSendTools(wk, @)]
    /\ UNCHANGED <<ctlVars, dispVars, splitVars, jsonlVars, restVars, now, pauseUntil, queue, enqueued>>

\* RateLimiter.BackOff(retryAfter) after a 429: the pause ends d ticks from
\* now (retryAfter clamped to 1..30 s, times a jitter of 0.8 to 1.2), and the
\* value is stored whatever was there.
BackOff(p, d) ==
    /\ worker[p].pc = "backoff"
    /\ pauseUntil' = now + d
    /\ worker' = [worker EXCEPT ![p].pc = "rewait"]
    /\ UNCHANGED <<ctlVars, dispVars, splitVars, jsonlVars, restVars, now, queue, toolMsgIDs, enqueued, delivered, lastCall, failures>>

\* StreamPusher.Stop: cancels the worker's context.
PusherStop(p) ==
    /\ worker[p].mode = "run"
    /\ worker' = [worker EXCEPT ![p].mode = "cancelled"]
    /\ UNCHANGED <<ctlVars, dispVars, splitVars, jsonlVars, restVars, now, pauseUntil, queue, toolMsgIDs, enqueued, delivered, lastCall, failures>>

\* worker, "case <-ctx.Done(): p.drain()"
WorkerCancelled(p) ==
    /\ worker[p].pc = "select"
    /\ worker[p].mode = "cancelled"
    /\ worker' = [worker EXCEPT ![p] = [@ EXCEPT !.pc = "drain", !.mode = "drain"]]
    /\ UNCHANGED <<ctlVars, dispVars, splitVars, jsonlVars, restVars, now, pauseUntil, queue, toolMsgIDs, enqueued, delivered, lastCall, failures>>

\* drain, one turn of its loop: the next queued task is sent unmerged, or the
\* queue is empty and the worker returns.
WorkerDrain(p) ==
    /\ worker[p].pc = "drain"
    /\ IF queue[p] = <<>>
       THEN /\ worker' = [worker EXCEPT ![p] = [@ EXCEPT !.pc = "stopped", !.mode = "stopped"]]
            /\ UNCHANGED <<queue, toolMsgIDs>>
       ELSE /\ queue' = [queue EXCEPT ![p] = Tail(@)]
            /\ worker' = [worker EXCEPT ![p] = sendMessageWorker(@, toolMsgIDs[p], Head(queue[p]))]
            /\ toolMsgIDs' = [toolMsgIDs EXCEPT ![p] = sendMessageTools(@, Head(queue[p]))]
    /\ UNCHANGED <<ctlVars, dispVars, splitVars, jsonlVars, restVars, now, pauseUntil, enqueued, delivered, lastCall, failures>>

\* The clock advances (only the time up to the end of a pause is told apart).
Tick ==
    /\ now < MaxClock
    /\ now < pauseUntil
    /\ now' = now + 1
    /\ UNCHANGED <<ctlVars, dispVars, splitVars, jsonlVars, restVars, pauseUntil, queue, worker, toolMsgIDs, enqueued, delivered, lastCall, failures>>

-----------------------------------------------------------------------------
\* Message splitting and formatting (src/bot/stream.go, src/bot/markdown.go)
\* A string is the sequence of its bytes; "E1" "E2" are the two bytes of one
\* two-byte rune, "n" is a newline, "q" a backtick.

IsContinuation(b) == b = "E2"

\* utf8.RuneCountInString
RuneCount(s) == Cardinality({i \in 1..Len(s) : ~IsContinuation(s[i])})

\* utf8.DecodeRuneInString(s[i:]), the size: s[i] is byte i+1 of the sequence
RuneSize(s, i) == IF s[i + 1] = "E1" /\ i + 2 <= Len(s) THEN 2 ELSE 1

\* runeByteOffset(s, n): the loop, from byte index i with count runes passed
RECURSIVE runeByteOffsetFrom(_, _, _, _)
runeByteOffsetFrom(s, n, i, count) ==
    IF count < n /\ i < Len(s)
    THEN runeByteOffsetFrom(s, n, i + RuneSize(s, i), count + 1)
    ELSE i

runeByteOffset(s, n) == runeByteOffsetFrom(s, n, 0, 0)

\* s[from:to] with Go's zero-based byte indices
Slice(s, from, to) == SubSeq(s, from + 1, to)

\* strings.Index and strings.LastIndex: zero-based, -1 when absent
Occurrences(s, pat) ==
    {i \in 0..(Len(s) - Len(pat)) : Slice(s, i, i + Len(pat)) = pat}

Index(s, pat) ==
    IF Occurrences(s, pat) = {} THEN -1
    ELSE CHOOSE i \in Occurrences(s, pat) : \A j \in Occurrences(s, pat) : i <= j

LastIndex(s, pat) ==
    IF Occurrences(s, pat) = {} THEN -1
    ELSE CHOOSE i \in Occurrences(s, pat) : \A j \in Occurrences(s, pat) : i >= j

Fence == <<"q", "q", "q">>
Newline == <<"n">>

\* findSplitPoint(text, maxLen): a byte index
findSplitPoint(text, maxLen) ==
    IF maxLen >= RuneCount(text) THEN Len(text)
    ELSE LET byteLimit == runeByteOffset(text, maxLen)
             sub == Slice(text, 0, byteLimit)
             lastFence == LastIndex(sub, Fence)
             lastNL == LastIndex(sub, Newline)
         IN  IF lastFence > byteLimit \div 2
             THEN LET nlIdx == Index(Slice(text, lastFence, Len(text)), Newline)
                  IN  IF nlIdx >= 0 THEN lastFence + nlIdx + 1 ELSE lastFence
             ELSE IF lastNL > byteLimit \div 2 THEN lastNL + 1
             ELSE byteLimit

\* the loop going on one byte after the split point
RECURSIVE splitLoopSkipsByte(_, _)
splitLoopSkipsByte(text, maxLen) ==
    IF RuneCount(text) > maxLen
    THEN LET splitIdx == findSplitPoint(text, maxLen)
         IN  <<Slice(text, 0, splitIdx)>> \o splitLoopSkipsByte(Slice(text, splitIdx + 1, Len(text)), maxLen)
    ELSE IF Len(text) > 0 THEN <<text>> ELSE <<>>

\* splitMessage(text, maxLen): the loop "for RuneCount(text) > maxLen"
RECURSIVE splitLoop(_, _)
splitLoop(text, maxLen) ==
    IF RuneCount(text) > maxLen
    THEN LET splitIdx == findSplitPoint(text, maxLen)
         IN  <<Slice(text, 0, splitIdx)>> \o splitLoop(Slice(text, splitIdx, Len(text)), maxLen)
    ELSE IF Len(text) > 0 THEN <<text>> ELSE <<>>

splitMessage(text, maxLen) ==
    IF RuneCount(text) <= maxLen THEN <<text>> ELSE splitLoop(text, maxLen)

\* escapeHTML: "&" becomes "&amp;" (the model's texts hold no "<" or ">")
RECURSIVE escapeHTML(_)
escapeHTML(s) ==
    IF s = <<>> THEN <<>>
    ELSE (IF Head(s) = "&" THEN <<"&", "a", "m", "p", ";">> ELSE <<Head(s)>>)
         \o escapeHTML(Tail(s))

\* truncateRunes(s, n)
truncateRunes(s, n) == Slice(s, 0, runeByteOffset(s, n))

\* sendMessage, the formatting of a chunk by content type: a thinking chunk is
\* sent as it is, a tool_use or tool_result chunk is escaped.
FormatChunk(type, chunk) ==
    IF type \in {"tool_use", "tool_result"} THEN escapeHTML(chunk) ELSE chunk

\* sendMessage(ctx, task) for a task that is not a paired tool_result: the
\* texts of its SendMessage calls, one per chunk.
SendMessageTexts(type) ==
    /\ msgType = ""
    /\ msgType' = type
    /\ outTexts' = LET chunks == splitMessage(msgText, MsgLimit)
                   IN  [i \in 1..Len(chunks) |-> FormatChunk(type, chunks[i])]
    /\ UNCHANGED <<ctlVars, dispVars, pushVars, jsonlVars, restVars, msgText>>

\* editToolMessage(ctx, msgID, origText, resultText): the text of its
\* EditMessageText call, then the text of its fallback SendMessage.
EditToolTexts(origText) ==
    LET joined == IF origText = <<>> THEN escapeHTML(msgText)
                  ELSE origText \o Newline \o escapeHTML(msgText)
        newText == IF RuneCount(joined) > MsgLimit
                   THEN truncateRunes(joined, MsgLimit - 3) \o <<".", ".", ".">>
                   ELSE joined
    IN  /\ msgType = ""
        /\ msgType' = "edit"
        /\ outTexts' = <<newText, escapeHTML(msgText)>>
        /\ UNCHANGED <<ctlVars, dispVars, pushVars, jsonlVars, restVars, msgText>>

-----------------------------------------------------------------------------
\* Append-log (JSONL) monitor and the store's offsets
\* (src/unnamed/part_001, src/state/store.go, src/monitor/dispatcher.go)
\* A path is told by its directories below the log directory, the stem of its
\* file name and the extension.

NoPath == [dirs |-> <<>>, stem |-> "", ext |-> ""]
MainPath(u) == [dirs |-> <<>>, stem |-> u, ext |-> ".jsonl"]
SubagentPath(u) == [dirs |-> <<u, "subagents">>, stem |-> "agent-a", ext |-> ".jsonl"]
Paths == {MainPath("u1"), MainPath("u2"), SubagentPath("u2")}

\* filepath.Base(filepath.Dir(path)) and filepath.Base(filepath.Dir(filepath.Dir(path)))
DirBase(path) == IF path.dirs = <<>> THEN "logdir" ELSE path.dirs[Len(path.dirs)]
DirDirBase(path) == IF Len(path.dirs) < 2 THEN "logdir" ELSE path.dirs[Len(path.dirs) - 1]

extractSessionUUID(path) ==
    IF DirBase(path) = "subagents" THEN DirDirBase(path) ELSE path.stem

belongsToSession(uuid, path) ==
    IF uuid = "" THEN TRUE ELSE extractSessionUUID(path) = uuid

\* isJSONLFile for the claude backend
isJSONLFile(path) == path.ext = ".jsonl"

\* strings.Contains(path, "/subagents/")
IsSubagentPath(path) == \E i \in 1..Len(path.dirs) : path.dirs[i] = "subagents"

NoOffset == [file |-> NoPath, off |-> 0]
NoFirstRead == [from |-> -1, to |-> -1, size |-> -1]
NoMonitor == [state |-> "none", tracked |-> [f \in Paths |-> -1], mainFile |-> NoPath,
              sessionUUID |-> "", baseline |-> {}, resume |-> NoOffset,
              firstRead |-> NoFirstRead]

\* listExistingJSONLFiles
listExistingJSONLFiles == {f \in Paths : fsize[f] >= 0 /\ isJSONLFile(f)}

\* The tracker NewJSONLMonitor makes for the persisted file
ZeroTracker(byteOffset) == 0
RestoredTracker(byteOffset) == byteOffset

\* NewJSONLMonitor(topicKey, bt, logDir, byteOffset, currentFile, handler, store)
NewJSONLMonitor(byteOffset, currentFile) ==
    IF currentFile # NoPath
    THEN [NoMonitor EXCEPT !.tracked = [@ EXCEPT ![currentFile] = RestoredTracker(byteOffset)],
                           !.mainFile = currentFile,
                           !.sessionUUID = extractSessionUUID(currentFile),
                           !.resume = [file |-> currentFile, off |-> byteOffset]]
    ELSE NoMonitor

\* JSONLMonitor.Start: the baseline is every file there is; a persisted file
\* that is gone is forgotten (the session uuid stays), one that is there is
\* taken off the baseline.
JSONLStart(m) ==
    LET base == listExistingJSONLFiles IN
    IF m.mainFile = NoPath THEN [m EXCEPT !.state = "running", !.baseline = base]
    ELSE IF fsize[m.mainFile] < 0
    THEN [m EXCEPT !.state = "running", !.baseline = base,
                   !.tracked = [@ EXCEPT ![m.mainFile] = -1], !.mainFile = NoPath,
                   !.resume = NoOffset]
    ELSE [m EXCEPT !.state = "running", !.baseline = base \ {m.mainFile}]

ReadEndAtSize(from, size) == size

\* readIncremental(filePath): where the read ends.  The file is read from the
\* tracker's offset to its end (every line within the scanner's buffer); a
\* seek past the end reads nothing and leaves the position.
ReadEnd(from, size) == IF size > from THEN size ELSE from

\* The monitor after readIncremental(f)
readIncrementalMonitor(m, f) ==
    IF m.tracked[f] < 0 \/ fsize[f] < 0 THEN m
    ELSE LET from == m.tracked[f]
             to == ReadEnd(from, fsize[f])
         IN  [m EXCEPT !.tracked = [@ EXCEPT ![f] = to],
                       !.firstRead = IF f = m.resume.file /\ @ = NoFirstRead
                                     THEN [from |-> from, to |-> to, size |-> fsize[f]]
                                     ELSE @]

\* Whether readIncremental(f) gets to read, and to publish
Reads(m, f) == m.tracked[f] >= 0 /\ fsize[f] >= 0
Publishes(m, f) == Reads(m, f) /\ f = m.mainFile

\* trackFile(path), up to its readIncremental
trackFileMonitor(m, f) ==
    IF m.tracked[f] >= 0 THEN m
    ELSE IF ~belongsToSession(m.sessionUUID, f) THEN m
    ELSE IF ~IsSubagentPath(f)
    THEN [m EXCEPT !.tracked = [@ EXCEPT ![f] = 0], !.mainFile = f,
                   !.sessionUUID = IF @ = "" THEN extractSessionUUID(f) ELSE @]
    ELSE [m EXCEPT !.tracked = [@ EXCEPT ![f] = 0]]

\* Whether trackFile(f) reaches its readIncremental
Tracks(m, f) == m.tracked[f] < 0 /\ belongsToSession(m.sessionUUID, f)

\* The part of handleEvent that ends in readIncremental(f): the monitor before
\* the read, or m itself with read FALSE when the event is dropped.
EventTarget(m, kind, f) ==
    IF kind = "create"
    THEN IF fsize[f] >= 0 /\ isJSONLFile(f) /\ f \notin m.baseline /\ Tracks(m, f)
         THEN [mon |-> trackFileMonitor(m, f), read |-> TRUE]
         ELSE [mon |-> m, read |-> FALSE]
    ELSE IF ~isJSONLFile(f) THEN [mon |-> m, read |-> FALSE]
    ELSE IF m.tracked[f] >= 0 THEN [mon |-> m, read |-> TRUE]
    ELSE IF f \notin m.baseline /\ Tracks(m, f)
         THEN [mon |-> trackFileMonitor(m, f), read |-> TRUE]
         ELSE [mon |-> m, read |-> FALSE]

\* handleEvent(watcher, event) for a Create or a Write event on a file f that
\* is there, under the monitor's lock: trackFile, readIncremental and
\* Store.SetOffset.
HandleEvent(kind, f) ==
    LET tg == EventTarget(jm, kind, f)
        before == tg.mon
        after == readIncrementalMonitor(before, f)
    IN
    /\ jm.state = "running"
    /\ fsize[f] >= 0
    /\ IF tg.read
       THEN /\ jm' = after
            /\ IF Publishes(before, f)
               THEN /\ offMem' = [file |-> f, off |-> after.tracked[f]]
                    /\ lastSet' = [file |-> f, off |-> after.tracked[f],
                                    before |-> IF offMem.file = f THEN offMem.off ELSE -1,
                                    fresh |-> jm.tracked[f] < 0, size |-> fsize[f]]
               ELSE UNCHANGED <<offMem, lastSet>>
       ELSE UNCHANGED <<jm, offMem, lastSet>>
    /\ UNCHANGED <<ctlVars, dispVars, pushVars, splitVars, restVars, fsize, offDisk>>

\* Dispatcher.StartMonitor for a claude binding: the registered monitor is
\* stopped, the new one is built from the store's offset and started.
StartJSONLMonitor ==
    /\ jm' = JSONLStart(NewJSONLMonitor(offMem.off, offMem.file))
    /\ UNCHANGED <<ctlVars, dispVars, pushVars, splitVars, restVars, fsize, offMem, offDisk, lastSet>>

\* Store.Save, from asyncSaveLoop after a SetOffset or from Close
StoreSave ==
    /\ offDisk # offMem
    /\ offDisk' = offMem
    /\ UNCHANGED <<ctlVars, dispVars, pushVars, splitVars, restVars, fsize, offMem, jm, lastSet>>

\* The process ends and starts again: state.New loads the state file, and no
\* monitor runs until recoverBindings starts one.
Restart ==
    /\ jm.state = "running"
    /\ offMem' = offDisk
    /\ jm' = NoMonitor
    /\ UNCHANGED <<ctlVars, dispVars, pushVars, splitVars, restVars, fsize, offDisk, lastSet>>

\* The backend (or anyone) creates, appends to, truncates or removes a log
\* file.  The topic's own principal file grows byte by byte; the files of the
\* other session are told apart only as empty or not.
GrowingPaths == {MainPath("u1")}

FileCreate(f) ==
    /\ fsize[f] < 0
    /\ fsize' = [fsize EXCEPT ![f] = 0]
    /\ UNCHANGED <<ctlVars, dispVars, pushVars, splitVars, restVars, offMem, offDisk, jm, lastSet>>

FileAppend(f) ==
    /\ fsize[f] >= 0
    /\ IF f \in GrowingPaths THEN fsize[f] < MaxSize ELSE fsize[f] = 0
    /\ fsize' = [fsize EXCEPT ![f] = @ + 1]
    /\ UNCHANGED <<ctlVars, dispVars, pushVars, splitVars, restVars, offMem, offDisk, jm, lastSet>>

FileTruncate(f) ==
    /\ fsize[f] > 0
    /\ fsize' = [fsize EXCEPT ![f] = 0]
    /\ UNCHANGED <<ctlVars, dispVars, pushVars, splitVars, restVars, offMem, offDisk, jm, lastSet>>

FileRemove(f) ==
    /\ fsize[f] >= 0
    /\ fsize' = [fsize EXCEPT ![f] = -1]
    /\ UNCHANGED <<ctlVars, dispVars, pushVars, splitVars, restVars, offMem, offDisk, jm, lastSet>>

-----------------------------------------------------------------------------
\* Initial values

InitCtl ==
    /\ bindings = [k \in Topics |-> NoBinding]
    /\ sendChans = [w \in Windows |-> 0]
    /\ chans = [c \in ChanSlots |-> FreeChan]
    /\ tmuxWindows = [w \in Windows |-> "absent"]
    /\ sent = [w \in Windows |-> <<>>]
    /\ written = [w \in Windows |-> <<>>]

InitDisp ==
    /\ monitors = [k \in Topics |-> 0]
    /\ mons = [i \in MonitorSlots |-> FreeMonitor]

\* The texts of the splitting specification: up to MaxTokens tokens, each a
\* letter, a newline, a fence, an ampersand or a two-byte rune.
Tokens == {<<"a">>, <<"n">>, <<"q", "q", "q">>, <<"&">>, <<"E1", "E2">>}

RECURSIVE Flatten(_)
Flatten(ts) == IF ts = <<>> THEN <<>> ELSE Head(ts) \o Flatten(Tail(ts))

TokenTexts == {Flatten(ts) : ts \in UNION {[1..n -> Tokens] : n \in 1..MaxTokens}}

InitSplit ==
    /\ msgText = <<>>
    /\ msgType = ""
    /\ outTexts = <<>>

NoSet == [file |-> NoPath, off |-> 0, before |-> -1, fresh |-> FALSE, size |-> 0]

InitJSONL ==
    /\ fsize = [f \in Paths |-> -1]
    /\ offMem = NoOffset
    /\ offDisk = NoOffset
    /\ jm = NoMonitor
    /\ lastSet = NoSet

InitInput == waiting = [c \in ChanSlots |-> <<>>]

NoUnbind == [window |-> 0, caller |-> ""]
NoText == [key |-> "", did |-> "", tick |-> 0]
IdleState == [phase |-> "idle", dir |-> FALSE]

\* The controller's own maps after bot.New, before recoverBindings
InitLifeMaps ==
    /\ states = [k \in Topics |-> IdleState]
    /\ pushers = [k \in Topics |-> FALSE]
    /\ statuses = [k \in Topics |-> FALSE]
    /\ started = [k \in Topics |-> -1]
    /\ unbinding = [k \in Topics |-> NoUnbind]
    /\ polling = {}
    /\ lastText = NoText

\* A first start: the state file holds nothing, recoverBindings has nothing to do.
InitLife ==
    /\ InitLifeMaps
    /\ offsets = [k \in Topics |-> -1]
    /\ recovery = [stage |-> "done", keys |-> {}]

\* main before the signal, the status poller's loop started by Bot.Start
ShutdownUp == [stage |-> "up", poller |-> "running"]

\* state.New: the document in memory is the one on disk (version 0), saveCh
\* is empty, the timer is stopped, asyncSaveLoop is at its select, no Save is
\* under way, done is open
Savers == {"loop", "close"}
NoSave == [pc |-> "idle", data |-> 0]
NoCallYet == [op |-> "", tick |-> 0]
StoreNew ==
    [mem |-> 0, fav |-> FALSE, disk |-> 0, flushed |-> 0, saveCh |-> 0, timer |-> "stopped",
     loop |-> "select", saves |-> [who \in Savers |-> NoSave],
     done |-> FALSE, closed |-> FALSE, atClose |-> 0, last |-> "", call |-> NoCallYet]

\* auth.New(userIDs) with one allowed user, and no update yet
Users == {0, 1, 2}
NoUpdate(allowed) == [allowed |-> allowed, user |-> 0, state |-> "none"]

\* no sendWithRetry / editWithRetry call under way
NoAttempt == [op |-> "", parse |-> FALSE, pc |-> "idle", calls |-> <<>>, chat |-> 0, thread |-> 0,
              cancelled |-> FALSE, dest |-> [chat |-> 0, thread |-> 0], out |-> <<>>]

\* NewJSONDiffMonitor: not started, logs.json not written yet
NoDiffMon == [pc |-> "idle", locked |-> FALSE, inTime |-> FALSE, timer |-> "none", cancelled |-> FALSE,
              event |-> "none", notices |-> 0, logs |-> <<>>, last |-> 0, stored |-> 0,
              emitted |-> <<>>, read |-> FALSE]

\* the tool_use ids of a session's log; "" in pendingTools is no entry
UseIDs == {"u1", "u2"}
NoBlock == [type |-> "", id |-> "", name |-> "", isError |-> FALSE]
NoParser == [pendingTools |-> [u \in UseIDs |-> ""], open |-> {}, last |-> NoBlock, lines |-> 0]

\* a tracked log file that is empty, the tracker at 0
NoLogFile == [data |-> <<>>, byteOffset |-> 0, parsed |-> <<>>, errors |-> 0]

\* a StatusEntry as pollOne makes it: "entry = &StatusEntry{}"
NewStatusEntry == [MessageID |-> 0, LastText |-> 0]
NoStatusCall == [key |-> "", op |-> "", text |-> 0]

\* NewStatusPoller: no entries; the panes show no line, no call is under way,
\* the platform has given out no message id
NoStatus == [entries |-> [k \in Topics |-> NewStatusEntry], pane |-> [w \in Windows |-> 0],
             call |-> NoStatusCall, ids |-> 0, failed |-> [k \in Topics |-> 0], changes |-> 0]

MaxRecent == 3

\* state.New(path, recentMax) without a state file: no recent directory
NoDirs == [recentMax |-> MaxRecent, Recent |-> <<>>, path |-> 0, before |-> <<>>]

InitLate == status = NoStatus /\ dirs = NoDirs /\ inHand = [k \in Topics |-> 0]

InitAux ==
    /\ update = NoUpdate({1}) /\ attempt = NoAttempt /\ diffMon = NoDiffMon /\ parser = NoParser
    /\ logFile = NoLogFile
    /\ InitLate

InitEnd == shutdown = ShutdownUp /\ store = StoreNew /\ InitAux

InitRest == InitInput /\ InitLife /\ InitEnd

NoCall == [topic |-> "", op |-> "", pc |-> "", paused |-> FALSE]

InitPush ==
    /\ now = 1
    /\ pauseUntil = 0
    /\ queue = [p \in Topics |-> <<>>]
    /\ worker = [p \in Topics |-> IdleWorker]
    /\ toolMsgIDs = [p \in Topics |-> [u \in ToolIDs |-> 0]]
    /\ enqueued = [p \in Topics |-> 0]
    /\ delivered = [p \in Topics |-> <<>>]
    /\ lastCall = NoCall
    /\ failures = 0

-----------------------------------------------------------------------------
\* Spec: the controller's bindings and input serializers

CtlBackends == {"claude", "bash"}

Init == InitCtl /\ InitDisp /\ InitPush /\ InitSplit /\ InitJSONL /\ InitRest

Next ==
    \/ \E key \in Topics, bang \in BOOLEAN : DefaultHandler(key, bang)
    \/ \E key \in Topics : HandleKill(key)
    \/ \E w \in Windows : CallbackKill(w)
    \/ \E key \in Topics : HandleCmd(key)
    \/ \E key \in Topics, bt \in CtlBackends, launched \in BOOLEAN :
          createSession(key, bt, launched)
    \/ \E key \in Topics, w \in Windows : bindExisting(key, w)
    \/ \E c \in ChanSlots : SendLoopWrite(c)
    \/ \E c \in ChanSlots : SendLoopExit(c)
    \/ \E w \in Windows : BackendExits(w)
    \/ \E w \in Windows : BackendStarts(w)
    \/ \E w \in Windows : WindowDies(w)

Spec == Init /\ [][Next]_vars

\* The sendLoop workers of window w that have not returned.
RunningSendLoops(w) == {c \in ChanSlots : chans[c].window = w /\ chans[c].running}

\* IsPrefix(s, t): s is an initial segment of t.
IsPrefix(s, t) == Len(s) <= Len(t) /\ \A i \in 1..Len(s) : s[i] = t[i]

\* C2: at every moment at most one sendLoop worker is running for a window,
\* whatever the interleaving of getOrCreateSendChan, closeSendChan and a
\* later getOrCreateSendChan for the same window.
C2_OneSendLoopPerWindow == \A w \in Windows : Cardinality(RunningSendLoops(w)) <= 1

\* C2, the failing case: a window is served by a new sendLoop while the
\* sendLoop of its closed channel still has texts to deliver.
C2_RebindWhileDraining ==
    \E w \in Windows : \E c, d \in RunningSendLoops(w) :
        /\ c # d
        /\ chans[c].closed /\ chans[c].buf # <<>>
        /\ sendChans[w] = d

\* C3: no two distinct topic keys hold a binding to the same window.
C3_WindowBoundOnce ==
    \A k1, k2 \in Topics :
        (k1 # k2 /\ Bound(k1) /\ Bound(k2)) => bindings[k1].window # bindings[k2].window

\* C3, the failing case: a second topic was bound to a live window by
\* bindExisting while the topic that created the session is still bound to it.
C3_StaleBindCallback ==
    \E k1, k2 \in Topics :
        /\ k1 # k2 /\ Bound(k1) /\ Bound(k2)
        /\ bindings[k1].window = bindings[k2].window
        /\ bindings[k1].backend \in CtlBackends
        /\ bindings[k2].backend = "unknown"

\* C4: for a window, the SendText calls occur in the order the texts were
\* enqueued: what has been written is an initial segment of what was sent.
C4_WrittenInEnqueueOrder == \A w \in Windows : IsPrefix(written[w], sent[w])

\* C4, the failing case: a later text of a window was written before an earlier one.
C4_LaterTextWrittenFirst ==
    \E w \in Windows : Len(written[w]) >= 1 /\ written[w][1] # sent[w][1]

-----------------------------------------------------------------------------
\* SpecInput: the message handlers sending to the input serializers, with the
\* sendLoop writing at its own pace (a terminal write may take any time)

NextInput ==
    \/ \E key \in Topics, bt \in CtlBackends, launched \in BOOLEAN :
          createSession(key, bt, launched)
    \/ \E key \in Topics : DefaultHandlerSend(key)
    \/ \E key \in Topics : HandleCmdSend(key)
    \/ \E c \in ChanSlots : HandlerResumes(c)
    \/ \E c \in ChanSlots : SendLoopWrite(c)
    \/ \E w \in Windows : BackendExits(w)

SpecInput == Init /\ [][NextInput]_vars

\* C12: a handler never waits in its send to a window's input serializer: a
\* text sent while the queue holds ChanCap texts is dropped.
C12_HandlerNeverWaits == \A c \in ChanSlots : waiting[c] = <<>>

\* C12, the failing case: the queue of a window is full, the sendLoop has
\* written nothing yet, and a handler is waiting in "ch <- text".
C12_HandlerWaitsOnFullQueue ==
    \E c \in ChanSlots :
        /\ waiting[c] = <<ChanCap + 1>>
        /\ Len(chans[c].buf) = ChanCap
        /\ written[chans[c].window] = <<>>

-----------------------------------------------------------------------------
\* SpecDispatcher: the monitor dispatcher under any sequence of calls

\* Dispatcher.StartMonitor(key, binding) with binding.Backend = bt
StartMonitor(key, bt, startOK) ==
    /\ HasFreeMonitorSlot(mons)
    /\ mons' = StartMonitorMons(mons, monitors, key, bt, startOK)
    /\ monitors' = StartMonitorMap(mons, monitors, key, bt, startOK)
    /\ UNCHANGED <<ctlVars, pushVars, splitVars, jsonlVars, restVars>>

\* Dispatcher.StopMonitor(key)
StopMonitor(key) ==
    /\ mons' = StopMonitorMons(mons, monitors, {key})
    /\ monitors' = StopMonitorMap(monitors, {key})
    /\ UNCHANGED <<ctlVars, pushVars, splitVars, jsonlVars, restVars>>

\* Dispatcher.StopAll()
StopAll ==
    /\ mons' = StopMonitorMons(mons, monitors, Topics)
    /\ monitors' = StopMonitorMap(monitors, Topics)
    /\ UNCHANGED <<ctlVars, pushVars, splitVars, jsonlVars, restVars>>

\* A monitor worker observes its cancelled context and returns.
MonitorWorkerExit(i) ==
    /\ mons[i].state = "cancelled"
    /\ mons' = [mons EXCEPT ![i] = FreeMonitor]
    /\ UNCHANGED <<ctlVars, pushVars, splitVars, jsonlVars, restVars, monitors>>

NextDispatcher ==
    \/ \E key \in Topics, bt \in BackendTypes \cup {"unknown"}, startOK \in BOOLEAN :
          StartMonitor(key, bt, startOK)
    \/ \E key \in Topics : StopMonitor(key)
    \/ StopAll
    \/ \E i \in MonitorSlots : MonitorWorkerExit(i)

SpecDispatcher == Init /\ [][NextDispatcher]_vars

\* C24: when the Start of the monitor built for a non-bash binding fails,
\* StartMonitor returns nil and the topic's registered monitor is a running
\* screen-diff monitor, the fallback; whenever StartMonitor returns an error
\* (the bash binding's monitor, or the fallback, did not start) no monitor is
\* registered for the topic, and whenever it returns nil a running monitor
\* of the topic is.
C24_FailedStrategyFallsBackToPane ==
    [][\A key \in Topics, bt \in BackendTypes \cup {"unknown"}, startOK \in BOOLEAN :
          StartMonitor(key, bt, startOK) =>
              LET err == StartMonitorErr(bt, startOK) IN
              /\ (bt # "bash" /\ ~StrategyStarts(bt, startOK)) =>
                    /\ err = ""
                    /\ monitors'[key] # 0
                    /\ mons'[monitors'[key]] =
                          [topic |-> key, kind |-> "pane", state |-> "running", fallback |-> TRUE]
              /\ err # "" => monitors'[key] = 0
              /\ err = "" =>
                    /\ monitors'[key] # 0
                    /\ mons'[monitors'[key]].topic = key
                    /\ mons'[monitors'[key]].state = "running"]_vars

\* C24, the case: a topic's registered monitor is the running screen-diff
\* fallback that replaced a monitor whose Start failed.
C24_FallbackRegistered ==
    \E k \in Topics :
        /\ monitors[k] # 0
        /\ mons[monitors[k]] = [topic |-> k, kind |-> "pane", state |-> "running", fallback |-> TRUE]

\* The monitors of topic key that were started and not stopped.
ActiveMonitors(key) == {i \in MonitorSlots : mons[i].topic = key /\ mons[i].state = "running"}

\* C1: after any sequence of StartMonitor, StopMonitor and StopAll a topic
\* has at most one active monitor, and it is the registered one: StartMonitor
\* stopped the monitor it replaced.
C1_OneActiveMonitorPerTopic ==
    \A k \in Topics :
        /\ Cardinality(ActiveMonitors(k)) <= 1
        /\ ActiveMonitors(k) \subseteq {monitors[k]}

\* C1, the case: StartMonitor replaced a registered monitor whose worker has
\* not returned yet.
C1_Replaced ==
    \E k \in Topics : \E i, j \in MonitorSlots :
        /\ i # j
        /\ mons[i].topic = k /\ mons[i].state = "cancelled"
        /\ monitors[k] = j /\ mons[j].state = "running"

-----------------------------------------------------------------------------
\* SpecPusher: one topic's pusher, from Enqueue to delivery, Stop and drain

TaskInputs == {<<"text", 1>>, <<"text", 3>>, <<"text", 7>>, <<"thinking", 1>>,
               <<"tool_use", 1>>, <<"tool_use", 7>>, <<"tool_result", 1>>}

NextPusher ==
    \/ \E in \in TaskInputs : Enqueue("t1", in[1], in[2])
    \/ WorkerTake("t1")
    \/ WorkerMerge("t1")
    \/ Wait("t1")
    \/ WaitCancelled("t1")
    \/ \E outcome \in {"ok", "429", "err"} : ApiCall("t1", outcome)
    \/ \E d \in 1..MaxBackOff : BackOff("t1", d)
    \/ PusherStop("t1")
    \/ WorkerCancelled("t1")
    \/ WorkerDrain("t1")
    \/ Tick

SpecPusher == Init /\ [][NextPusher]_vars

\* The messages of topic p that arrived as new messages (not as edits).
Sends(p) == SelectSeq(delivered[p], LAMBDA m : m.op = "send")

\* C5: the messages a pusher delivers carry the tasks in enqueue order: the
\* tasks merged into one message are in order, and every message's tasks come
\* after those of the messages before it (chunks of one task follow each
\* other).  The edit of a paired tool_result does not count.
C5_DeliveredInEnqueueOrder ==
    \A p \in Topics :
        LET ms == Sends(p) IN
        /\ \A i \in 1..Len(ms) : \A a, b \in 1..Len(ms[i].ids) :
               a < b => ms[i].ids[a] < ms[i].ids[b]
        /\ \A i, j \in 1..Len(ms) :
               i < j => ms[i].ids[Len(ms[i].ids)] <= ms[j].ids[1]

\* C5, the case: a merged message was delivered and its overflow after it.
C5_MergedThenOverflow ==
    \E p \in Topics : \E i \in 1..Len(delivered[p]) :
        /\ i < Len(delivered[p])
        /\ delivered[p][i].op = "send" /\ Len(delivered[p][i].ids) = 2
        /\ delivered[p][i + 1].op = "send"
        /\ delivered[p][i + 1].ids = <<delivered[p][i].ids[2] + 1>>

\* C11: Enqueue (one step, a select with a default branch, taken whatever the
\* queue holds) never lets the queue grow past its capacity: the queue never
\* holds more than QueueCap tasks, a task offered to a queue that holds
\* QueueCap tasks is dropped, the queue staying as it was, and a task offered
\* to a queue with room becomes its last element.
C11_FullQueueDropsTask ==
    [][\A p \in Topics :
          /\ Len(queue'[p]) <= QueueCap
          /\ (enqueued'[p] = enqueued[p] + 1 /\ Len(queue[p]) = QueueCap)
                => queue'[p] = queue[p]
          /\ (enqueued'[p] = enqueued[p] + 1 /\ Len(queue[p]) < QueueCap)
                => /\ Len(queue'[p]) = Len(queue[p]) + 1
                   /\ queue'[p][Len(queue'[p])].ids = <<enqueued'[p]>>]_vars

\* C11, the case: one task more than the queue takes was offered while the
\* worker took none, and the queue holds the first QueueCap of them.
C11_TaskDropped ==
    \E p \in Topics :
        /\ enqueued[p] = QueueCap + 1
        /\ worker[p] = IdleWorker /\ delivered[p] = <<>> /\ failures = 0
        /\ Len(queue[p]) = QueueCap
        /\ \A i \in 1..QueueCap : queue[p][i].ids = <<i>>

\* the tasks a pusher holds: queued, being merged or sent, or set aside
InHand(q, wk) == {q[i].ids[1] : i \in 1..Len(q)} \cup {wk.task.ids[i] : i \in 1..Len(wk.task.ids)}
                    \cup {wk.overflow.ids[i] : i \in 1..Len(wk.overflow.ids)}

\* C25: a turn of tryMerge's loop that takes a task from the queue either
\* appends it to the merged message, and then it is the next queued task, of
\* the type of the first (text or thinking), and the merged length stays
\* within MergeMax, or sets it aside unchanged (type and tool_use_id
\* included) because its type differs or the length would pass MergeMax; no
\* task leaves the pusher's hands by merging; the task set aside is the next
\* one sendMessage is called with, unchanged; and a message of several tasks
\* is text or thinking and within MergeMax.
C25_MergeKeepsEveryTask ==
    [][\A p \in Topics :
          LET wk == worker[p]
              nwk == worker'[p]
          IN
          /\ (wk.pc = "merge" /\ nwk # wk /\ nwk.mode = wk.mode) =>
                /\ InHand(queue'[p], nwk) = InHand(queue[p], wk)
                /\ wk.task.type \in {"text", "thinking"}
                /\ queue[p] = <<>> => nwk.task = wk.task /\ nwk.overflow = NoTask /\ nwk.pc = "wait"
                /\ queue[p] # <<>> =>
                      LET next == Head(queue[p]) IN
                      /\ queue'[p] = Tail(queue[p])
                      /\ IF next.type = wk.task.type /\ wk.task.len + next.len + 2 <= MergeMax
                         THEN /\ nwk.task.ids = wk.task.ids \o next.ids
                              /\ nwk.task.len = wk.task.len + 2 + next.len
                              /\ nwk.task.type = wk.task.type
                              /\ nwk.overflow = NoTask /\ nwk.pc = "merge"
                         ELSE /\ nwk.task = wk.task
                              /\ nwk.overflow = next
                              /\ nwk.pc = "wait"
          /\ (wk.overflow # NoTask /\ nwk.overflow = NoTask) =>
                nwk.task = wk.overflow /\ nwk.pc = "wait"
          /\ (nwk.overflow # NoTask /\ wk.overflow = NoTask) => wk.pc = "merge"
          /\ Len(nwk.task.ids) > 1 =>
                nwk.task.type \in {"text", "thinking"} /\ nwk.task.len <= MergeMax]_vars

\* C25, the case: two texts were merged into one message, and the tool_use
\* queued behind them is set aside with its tool_use_id while the merged
\* message is being sent.
C25_MergedWithToolUseAside ==
    /\ worker["t1"].task = [ids |-> <<1, 2>>, type |-> "text", len |-> 4, tool |-> ""]
    /\ worker["t1"].overflow = [ids |-> <<3>>, type |-> "tool_use", len |-> 1, tool |-> "u1"]
    /\ worker["t1"].pc = "wait"

\* sendMessage begins for a tool_result task of topic p in this step.
BeginsToolResult(p) ==
    /\ worker'[p].pc = "wait"
    /\ worker'[p].task # worker[p].task
    /\ worker'[p].task.type = "tool_result"

\* The tool_use message m of topic p was delivered before position i.
ToolUseSentBefore(ds, i, m) ==
    \E j \in 1..(i - 1) : ds[j].op = "send" /\ ds[j].type = "tool_use" /\ ds[j].ids = <<m>>

SameChunk(p) ==
    /\ worker'[p].task = worker[p].task
    /\ worker'[p].op = worker[p].op
    /\ worker'[p].left = worker[p].left

\* C14: an attempt answered with a throttling error is followed by BackOff
\* (the gate's pause is set to end after now), then by Wait, then by one
\* retry of the same chunk once the pause is over; only a first attempt leads
\* to BackOff or to a plain-text attempt, so that a chunk gets at most two
\* calls; a retry that fails ends the call (the chunk is abandoned), and so
\* does a Wait cut short by the cancellation of the worker's context.
C14_ThrottledSendRetriedOnce ==
    [][\A p \in Topics :
          LET wk == worker[p]
              nwk == worker'[p]
          IN
          /\ (nwk.pc = "backoff" /\ wk.pc # "backoff") => wk.pc = "call" /\ SameChunk(p)
          /\ (nwk.pc = "plain" /\ wk.pc # "plain") => wk.pc = "call" /\ SameChunk(p)
          /\ wk.pc = "backoff" =>
                \/ nwk.pc = "backoff" /\ pauseUntil' = pauseUntil
                \/ nwk.pc = "rewait" /\ SameChunk(p) /\ pauseUntil' > now
          /\ (nwk.pc = "rewait" /\ wk.pc # "rewait") => wk.pc = "backoff"
          /\ (wk.pc = "rewait" /\ nwk.pc # "rewait") =>
                \/ nwk.pc = "retry" /\ SameChunk(p) /\ ~Paused
                \/ wk.mode = "cancelled" /\ Paused /\ ~SameChunk(p)
          /\ (nwk.pc = "retry" /\ wk.pc # "retry") => wk.pc = "rewait"
          /\ (wk.pc \in {"retry", "plain"} /\ nwk # wk /\ nwk.mode = wk.mode) =>
                /\ ~SameChunk(p)
                /\ delivered'[p] = delivered[p] => failures' = failures + 1 \/ wk.mode = "cancelled"]_vars

\* C14, the case: the first task's send was answered with a 429, the retry
\* after the pause failed as well, and the chunk was abandoned.
C14_RetryFailedAndAbandoned ==
    /\ lastCall = [topic |-> "t1", op |-> "send", pc |-> "retry", paused |-> FALSE]
    /\ failures = 2
    /\ pauseUntil > 0
    /\ enqueued["t1"] = 1 /\ delivered["t1"] = <<>>
    /\ worker["t1"] = IdleWorker

\* C14 as stated: after the throttled attempt and the Wait, the retry is made.
C14_AlwaysRetried ==
    [][\A p \in Topics :
          (worker[p].pc = "rewait" /\ worker'[p].pc # "rewait") => worker'[p].pc = "retry"]_vars

-----------------------------------------------------------------------------
\* SpecGate: the pushers of two topics behind the one rate gate

GateInputs == {<<"text", 1>>, <<"text", 7>>, <<"tool_use", 1>>, <<"tool_result", 1>>}

NextGate ==
    \/ \E p \in Topics, in \in GateInputs : Enqueue(p, in[1], in[2])
    \/ \E p \in Topics : WorkerTake(p)
    \/ \E p \in Topics : WorkerMerge(p)
    \/ \E p \in Topics : Wait(p)
    \/ \E p \in Topics, outcome \in {"ok", "429", "err"} : ApiCall(p, outcome)
    \/ \E p \in Topics, d \in 1..MaxBackOff : BackOff(p, d)
    \/ Tick

SpecGate == Init /\ [][NextGate]_vars

\* C6: no SendMessage or EditMessageText call begins while the clock is
\* before paused_until: first attempts, retries after throttling, plain-text
\* retries, tool-result edits and their fallback sends, for every topic.
C6_NoCallWhilePaused == ~lastCall.paused

\* C6, the failing case: a pusher passed Wait, another pusher's BackOff set
\* the pause, and the first pusher's first attempt began inside it.
C6_CallAfterOtherBackOff ==
    /\ lastCall.paused
    /\ lastCall.pc = "call"
    /\ \E q \in Topics : q # lastCall.topic /\ worker[q].pc = "rewait"

-----------------------------------------------------------------------------
\* SpecSplit: the texts sendMessage and editToolMessage hand to the chat API

InitSplitTexts ==
    /\ InitCtl /\ InitDisp /\ InitPush /\ InitJSONL /\ InitRest
    /\ msgText \in TokenTexts
    /\ msgType = ""
    /\ outTexts = <<>>

NextSplit ==
    \/ \E type \in {"thinking", "tool_use", "tool_result"} : SendMessageTexts(type)
    \/ \E origText \in {<<>>, <<"a">>} : EditToolTexts(origText)

SpecSplit == InitSplitTexts /\ [][NextSplit]_vars

\* C7: every text handed to SendMessage or EditMessageText has at most
\* MsgLimit runes: each chunk splitMessage returns, after the formatting of
\* its content type.
C7_TextsWithinLimit == \A i \in 1..Len(outTexts) : RuneCount(outTexts[i]) <= MsgLimit

\* C7, the failing case: a chunk sent as it was split (a thinking text, no
\* formatting applied) is longer than the limit.
C7_ChunkOverLimit ==
    /\ msgType = "thinking"
    /\ \E i \in 1..Len(outTexts) : RuneCount(outTexts[i]) > MsgLimit

-----------------------------------------------------------------------------
\* SpecJSONL: a bound topic's append-log monitor over restarts

NextJSONL ==
    \/ \E kind \in {"create", "write"}, f \in Paths : HandleEvent(kind, f)
    \/ StartJSONLMonitor
    \/ StoreSave
    \/ Restart
    \/ \E f \in Paths : FileCreate(f)
    \/ \E f \in Paths : FileAppend(f)
    \/ \E f \in Paths : FileTruncate(f)
    \/ \E f \in Paths : FileRemove(f)

SpecJSONL == Init /\ [][NextJSONL]_vars

\* C8: for a file the monitor already tracks (resumed from the store or
\* tracked by an earlier event), a SetOffset call never publishes a byte
\* offset below the one the store held for that file, also when the file was
\* truncated or is growing; only the call that first tracks a file, from byte
\* 0, can publish less than the store held.
C8_TrackedOffsetNeverDecreases == lastSet.before > lastSet.off => lastSet.fresh

\* C8, the case: a tracked file was truncated below the monitor's offset, a
\* write event was handled, and the offset published stayed where it was.
C8_ReadAfterTruncation ==
    /\ lastSet.file # NoPath
    /\ ~lastSet.fresh
    /\ lastSet.size < lastSet.before
    /\ lastSet.off = lastSet.before

\* C8 as stated: while the topic stays bound, a SetOffset call never
\* publishes, for a file, a byte offset below the one the store held for it.
C8_OffsetNeverDecreases == lastSet.off >= lastSet.before

\* C9: once the monitor's session uuid is set, no file whose extracted uuid
\* differs from it is tracked (only tracked files are read).
C9_OnlySessionFilesTracked ==
    jm.sessionUUID # "" =>
        \A f \in Paths : jm.tracked[f] >= 0 => extractSessionUUID(f) = jm.sessionUUID

\* C9, the failing case: the session uuid is u1 and a subagent file of
\* session u2, tracked before the uuid was set, has been read to its end.
C9_ForeignSubagentRead ==
    /\ jm.sessionUUID = "u1"
    /\ jm.tracked[SubagentPath("u2")] > 0

\* C10: a monitor started with a persisted offset n for a file that exists
\* begins its next read of that file at byte n and reads on to the end of the
\* file; a monitor started after a restart gets the offset the state file held.
C10_ResumesAtPersistedOffset ==
    /\ jm.state = "none" => offMem = offDisk
    /\ (jm.state = "running" /\ jm.resume # NoOffset /\ jm.firstRead = NoFirstRead)
          => jm.tracked[jm.resume.file] = jm.resume.off
    /\ jm.firstRead # NoFirstRead
          => /\ jm.firstRead.from = jm.resume.off
             /\ jm.firstRead.to = IF jm.firstRead.size > jm.resume.off
                                  THEN jm.firstRead.size ELSE jm.resume.off

\* C10, the case: offset 1 was in the state file, the process restarted, and
\* the new monitor's first read of the file went from byte 1 to byte 2.
C10_ResumedAndRead ==
    /\ jm.state = "running"
    /\ jm.resume.off = 1
    /\ offDisk.file = jm.resume.file
    /\ jm.firstRead = [from |-> 1, to |-> 2, size |-> 2]

-----------------------------------------------------------------------------
\* A topic's resources over its life: binding, offset, input serializer,
\* monitor, pusher, status entry and phase
\* (src/bot/bot.go, src/bot/handlers.go, src/bot/stream.go, src/unnamed/part_000)

otherVars == <<pushVars, splitVars, jsonlVars, inputVars, endVars>>

\* tmux.ListWindows: the windows there are
LiveWindows == {w \in Windows : IsWindowAlive(w)}

\* only the window is probed
WindowDeadOnly(w) == ~IsWindowAlive(w)

\* defaultHandler, "if !b.tmux.IsWindowAlive(...) {...} if !b.tmux.IsBackendAlive(...) {...}":
\* whether the text of a bound topic ends in unbind
LivenessFails(w) == ~IsWindowAlive(w) \/ ~IsBackendAlive(w)

\* recoverBindings treats every window that is there as one with a backend
RecoveryCaseWindowOnly(w) == IF ~IsWindowAlive(w) THEN "disconnected" ELSE "recover"

\* recoverBindings, the two probes of its loop body
RecoveryCase(w) ==
    IF ~IsWindowAlive(w) THEN "disconnected"
    ELSE IF ~IsBackendAlive(w) THEN "delete"
    ELSE "recover"

\* setPhase(key, phase)
setPhase(sts, key, phase) == [sts EXCEPT ![key].phase = phase]

\* Dispatcher.StartMonitor(ctx, key, binding, handler) with the offset it reads
\* from the store for an append-log monitor
StartMonitorFor(key, bt, startOK) ==
    /\ HasFreeMonitorSlot(mons)
    /\ mons' = StartMonitorMons(mons, monitors, key, bt, startOK)
    /\ monitors' = StartMonitorMap(mons, monitors, key, bt, startOK)
    /\ started' = [started EXCEPT ![key] =
                      IF startOK /\ MonitorKind(bt) = "jsonl" THEN offsets[key] ELSE -1]

\* handleNew (/new) and the "new_session" callback: startNewFlow
HandleNew(key) ==
    /\ recovery.stage = "done"
    /\ states' = setPhase(states, key, "awaiting_dir")
    /\ UNCHANGED <<ctlVars, dispVars, otherVars, offsets, pushers, statuses, started, recovery,
                   unbinding, polling, lastText>>

\* handleCallback, "dir:<path>" (input FALSE) and "dir_input" (input TRUE)
CallbackDir(key, input) ==
    /\ recovery.stage = "done"
    /\ states' = IF input THEN setPhase(states, key, "awaiting_path_input")
                 ELSE [states EXCEPT ![key] = [phase |-> "awaiting_backend", dir |-> TRUE]]
    /\ UNCHANGED <<ctlVars, dispVars, otherVars, offsets, pushers, statuses, started, recovery,
                   unbinding, polling, lastText>>

\* createSession(ctx, key, chatID, threadID, backendType), from the
\* "backend:<type>" callback
CreateSessionCtl(key, bt, launched) ==
    LET free == {w \in Windows : tmuxWindows[w] = "absent"} IN
    /\ recovery.stage = "done"
    /\ states[key].dir
    /\ free # {}
    /\ LET w == CHOOSE x \in free : \A y \in free : x <= y IN
       /\ tmuxWindows' = [tmuxWindows EXCEPT ![w] =
                             IF bt # "bash" /\ launched THEN "backend" ELSE "shell"]
       /\ BindTo(key, w, bt)
    /\ states' = setPhase(states, key, "bound")
    /\ UNCHANGED <<sent, written, otherVars, offsets, pushers, statuses, recovery, unbinding,
                   polling, lastText>>

CreateSession(key, bt, launched, startOK) ==
    /\ CreateSessionCtl(key, bt, launched)
    /\ StartMonitorFor(key, bt, startOK)

\* createSession without the dispatcher's part (nothing of it flows back)
CreateSessionRouted(key, bt, launched) ==
    /\ CreateSessionCtl(key, bt, launched)
    /\ UNCHANGED <<dispVars, started>>

\* bindExisting(ctx, key, chatID, threadID, windowID), from the "bind:<window>" callback
BindExistingCtl(key, w) ==
    /\ recovery.stage = "done"
    /\ IsBackendAlive(w)
    /\ BindTo(key, w, "unknown")
    /\ states' = setPhase(states, key, "bound")
    /\ UNCHANGED <<tmuxWindows, sent, written, otherVars, offsets, pushers, statuses, recovery,
                   unbinding, polling, lastText>>

BindExisting(key, w) ==
    /\ BindExistingCtl(key, w)
    /\ StartMonitorFor(key, "unknown", TRUE)

\* unbind(key, binding), its first two calls: DeleteBinding and DeleteOffset
UnbindBegin(key, caller) ==
    /\ unbinding[key] = NoUnbind
    /\ bindings' = [bindings EXCEPT ![key] = NoBinding]
    /\ offsets' = [offsets EXCEPT ![key] = -1]
    /\ unbinding' = [unbinding EXCEPT ![key] = [window |-> bindings[key].window, caller |-> caller]]

\* unbind(key, binding), the rest: closeSendChan, StopMonitor, StopPusher,
\* RemoveStatus and setPhase(key, "idle"); then the caller goes on, and
\* defaultHandler's handleUnbound starts the new-session flow when there is no
\* window to offer.
UnbindFinishCtl(key) ==
    LET u == unbinding[key] IN
    /\ u # NoUnbind
    /\ sendChans' = closeSendChanMap(sendChans, u.window)
    /\ chans' = closeSendChanChans(sendChans, chans, u.window)
    /\ pushers' = [pushers EXCEPT ![key] = FALSE]
    /\ statuses' = [statuses EXCEPT ![key] = FALSE]
    /\ states' = setPhase(states, key,
                     IF u.caller = "text" /\ LiveWindows = {} THEN "awaiting_dir" ELSE "idle")
    /\ unbinding' = [unbinding EXCEPT ![key] = NoUnbind]
    /\ UNCHANGED <<bindings, tmuxWindows, sent, written, otherVars, offsets, recovery, polling, lastText>>

UnbindFinish(key) ==
    /\ UnbindFinishCtl(key)
    /\ mons' = StopMonitorMons(mons, monitors, {key})
    /\ monitors' = StopMonitorMap(monitors, {key})
    /\ started' = [started EXCEPT ![key] = -1]

\* the rest of unbind without the dispatcher's part
UnbindFinishRouted(key) ==
    /\ UnbindFinishCtl(key)
    /\ UNCHANGED <<dispVars, started>>

\* defaultHandler for a text message of topic key: the phase switch, then the
\* binding with its liveness probes.  bang: the text starts with "!"; pathOK:
\* the text names a directory.
DefaultHandlerText(key, bang, pathOK) ==
    LET st == states[key]
        b == bindings[key]
        took(did) == [key |-> key, did |-> did, tick |-> 1 - lastText.tick]
        quiet == UNCHANGED <<ctlVars, dispVars, otherVars, offsets, pushers, statuses, started,
                             recovery, unbinding, polling>>
    IN
    /\ recovery.stage = "done"
    /\ \/ /\ st.phase = "awaiting_path_input"
          /\ states' = IF pathOK THEN [states EXCEPT ![key] = [phase |-> "awaiting_backend", dir |-> TRUE]]
                       ELSE states
          /\ lastText' = took(IF pathOK THEN "path" ELSE "reply")
          /\ quiet
       \/ /\ st.phase \in {"awaiting_dir", "awaiting_backend"}
          /\ lastText' = took("reply")
          /\ UNCHANGED states
          /\ quiet
       \/ /\ st.phase \in {"idle", "bound"}
          /\ Bound(key)
          /\ LivenessFails(b.window)
          /\ UnbindBegin(key, "text")
          /\ lastText' = took("unbind")
          /\ UNCHANGED <<sendChans, chans, tmuxWindows, sent, written, dispVars, otherVars, states,
                         pushers, statuses, started, recovery, polling>>
       \/ /\ st.phase \in {"idle", "bound"}
          /\ Bound(key)
          /\ ~LivenessFails(b.window)
          /\ bang
          /\ lastText' = took("keys")
          /\ UNCHANGED states
          /\ quiet
       \/ /\ st.phase \in {"idle", "bound"}
          /\ Bound(key)
          /\ ~LivenessFails(b.window)
          /\ ~bang
          /\ EnqueueText(b.window)
          /\ lastText' = took("queued")
          /\ UNCHANGED <<bindings, tmuxWindows, written, dispVars, otherVars, offsets, states, pushers,
                         statuses, started, recovery, unbinding, polling>>
       \/ /\ st.phase \in {"idle", "bound"}
          /\ ~Bound(key)
          /\ states' = IF LiveWindows = {} THEN setPhase(states, key, "awaiting_dir") ELSE states
          /\ lastText' = took("flow")
          /\ quiet

\* unbind(key, binding) called by a handler that read the binding before
\* another handler unbound the key: nothing of the key is left and window w of
\* the stale binding has no serializer; every call finds nothing to remove and
\* setPhase writes "idle"
UnbindAgain(key, w) ==
    /\ recovery.stage = "done"
    /\ ~Bound(key)
    /\ unbinding[key] = NoUnbind
    /\ sendChans[w] = 0
    /\ monitors[key] = 0
    /\ states[key].phase # "idle"
    /\ states' = setPhase(states, key, "idle")
    /\ UNCHANGED <<ctlVars, dispVars, otherVars, offsets, pushers, statuses, started, recovery,
                   unbinding, polling, lastText>>

\* handleKill (/kill) and handleTopicClosed: KillWindow, then unbind
HandleKillTopic(key) ==
    /\ recovery.stage = "done"
    /\ Bound(key)
    /\ tmuxWindows' = KillWindow(tmuxWindows, bindings[key].window)
    /\ UnbindBegin(key, "kill")
    /\ UNCHANGED <<sendChans, chans, sent, written, dispVars, otherVars, states, pushers, statuses,
                   started, recovery, polling, lastText>>

\* A monitor's worker handles an event: the output handler gets the pusher of
\* its topic (PusherManager.GetOrCreate) and a log monitor publishes its
\* offset (Store.SetOffset).  A worker whose context was cancelled may still
\* be in its handler.
MonitorEvent(i) ==
    LET k == mons[i].topic IN
    /\ mons[i].state \in {"running", "cancelled"}
    /\ pushers' = [pushers EXCEPT ![k] = TRUE]
    /\ offsets' = IF mons[i].kind \in {"jsonl", "jsondiff"} THEN [offsets EXCEPT ![k] = 1] ELSE offsets
    /\ UNCHANGED <<ctlVars, dispVars, otherVars, states, statuses, started, recovery, unbinding,
                   polling, lastText>>

\* StatusPoller.pollAll: the snapshot of the bindings it goes through
PollBegin ==
    /\ recovery.stage = "done"
    /\ polling = {}
    /\ polling' = {[key |-> k, window |-> bindings[k].window] :
                      k \in {x \in Topics : /\ Bound(x)
                                            /\ bindings[x].status # "disconnected"
                                            /\ bindings[x].backend # "bash"}}
    /\ polling' # {}
    /\ UNCHANGED <<ctlVars, dispVars, otherVars, offsets, states, pushers, statuses, started,
                   recovery, unbinding, lastText>>

\* StatusPoller.pollOne(ctx, key, binding): an entry is made once the pane
\* shows a status line (shown) and the pusher has nothing pending.
PollOne(e, shown) ==
    /\ e \in polling
    /\ shown => IsWindowAlive(e.window)
    /\ polling' = polling \ {e}
    /\ statuses' = [statuses EXCEPT ![e.key] = @ \/ shown]
    /\ UNCHANGED <<ctlVars, dispVars, otherVars, offsets, states, pushers, started, recovery,
                   unbinding, lastText>>

\* recoverBindings, "bindings := b.store.AllBindings()"
RecoverBegin ==
    LET keys == {k \in Topics : Bound(k)} IN
    /\ recovery.stage = "new"
    /\ recovery' = [stage |-> IF keys = {} THEN "done" ELSE "run", keys |-> keys]
    /\ UNCHANGED <<ctlVars, dispVars, otherVars, offsets, states, pushers, statuses, started,
                   unbinding, polling, lastText>>

\* recoverBindings, one turn of its loop, for the binding of key
RecoverOne(key, startOK) ==
    LET b == bindings[key]
        case == RecoveryCase(b.window)
        left == recovery.keys \ {key}
    IN
    /\ recovery.stage = "run"
    /\ key \in recovery.keys
    /\ recovery' = [stage |-> IF left = {} THEN "done" ELSE "run", keys |-> left]
    /\ \/ /\ case = "disconnected"
          /\ bindings' = [bindings EXCEPT ![key].status = "disconnected"]
          /\ UNCHANGED <<sendChans, chans, dispVars, offsets, states, started>>
       \/ /\ case = "delete"
          /\ bindings' = [bindings EXCEPT ![key] = NoBinding]
          /\ offsets' = [offsets EXCEPT ![key] = -1]
          /\ UNCHANGED <<sendChans, chans, dispVars, states, started>>
       \/ /\ case = "recover"
          /\ sendChans[b.window] = 0 => HasFreeChan(chans)
          /\ sendChans' = getOrCreateSendChanMap(sendChans, chans, b.window)
          /\ chans' = getOrCreateSendChanChans(sendChans, chans, b.window)
          /\ StartMonitorFor(key, b.backend, startOK)
          /\ states' = setPhase(states, key, "bound")
          /\ UNCHANGED <<bindings, offsets>>
    /\ UNCHANGED <<tmuxWindows, sent, written, otherVars, pushers, statuses, unbinding, polling, lastText>>

-----------------------------------------------------------------------------
\* SpecRecover: a start of the process over a state file left by an earlier run

\* What an earlier run can leave in the state file and in the multiplexer
PersistedBindings ==
    {NoBinding} \cup [window : Windows, backend : CtlBackends \cup {"unknown"},
                      status : {"running", "disconnected"}]

InitRecover ==
    /\ InitDisp /\ InitPush /\ InitSplit /\ InitJSONL /\ InitInput /\ InitLifeMaps /\ InitEnd
    /\ bindings \in [Topics -> PersistedBindings]
    /\ offsets \in [Topics -> {-1, 1}]
    /\ tmuxWindows \in [Windows -> {"dead", "shell", "backend"}]
    /\ sendChans = [w \in Windows |-> 0]
    /\ chans = [c \in ChanSlots |-> FreeChan]
    /\ sent = [w \in Windows |-> <<>>]
    /\ written = [w \in Windows |-> <<>>]
    /\ recovery = [stage |-> "new", keys |-> {}]

NextRecover ==
    \/ RecoverBegin
    \/ \E key \in Topics, startOK \in BOOLEAN : RecoverOne(key, startOK)
    \/ \E w \in Windows : BackendExits(w)
    \/ \E w \in Windows : WindowDies(w)

SpecRecover == InitRecover /\ [][NextRecover]_vars

\* recoverBindings visits the binding of key in this step.
Recovers(key) == recovery.stage = "run" /\ key \in recovery.keys /\ key \notin recovery'.keys

\* No input serializer and no monitor is started, and no phase is set, in this step.
NothingStarted ==
    /\ sendChans' = sendChans /\ chans' = chans
    /\ monitors' = monitors /\ mons' = mons
    /\ states' = states

-----------------------------------------------------------------------------
\* SpecRouting: text messages routed by defaultHandler while sessions are
\* created, adopted and lost

RoutedTopics == {"t1"}

\* One text is queued per window: a second one takes the same path.
NextRouting ==
    \/ \E key \in RoutedTopics : HandleNew(key)
    \/ \E key \in RoutedTopics, input \in BOOLEAN : CallbackDir(key, input)
    \/ \E key \in RoutedTopics, bt \in CtlBackends, launched \in BOOLEAN :
          CreateSessionRouted(key, bt, launched)
    \/ \E key \in RoutedTopics, bang, pathOK \in BOOLEAN :
          /\ IF bang \/ ~Bound(key) THEN TRUE ELSE sent[bindings[key].window] = <<>>
          /\ DefaultHandlerText(key, bang, pathOK)
    \/ \E key \in RoutedTopics : UnbindFinishRouted(key)
    \/ \E c \in ChanSlots : SendLoopExit(c)
    \/ \E w \in Windows : BackendExits(w)
    \/ \E w \in Windows : WindowDies(w)

SpecRouting == Init /\ [][NextRouting]_vars

\* defaultHandler has taken a text of topic k in this step
TextArrives(k) == lastText' # lastText /\ lastText'.key = k

\* k is bound to a window that is gone or whose backend has exited
DeadBound(k) ==
    /\ Bound(k)
    /\ \/ ~IsWindowAlive(bindings[k].window)
       \/ ~IsBackendAlive(bindings[k].window)

-----------------------------------------------------------------------------
\* SpecUnbind: topics are bound and unbound while the monitors' workers and
\* the status poller go on

NextUnbind ==
    \/ \E key \in RoutedTopics : CallbackDir(key, FALSE)
    \/ \E key \in RoutedTopics, bt \in CtlBackends, launched, startOK \in BOOLEAN :
          CreateSession(key, bt, launched, startOK)
    \/ \E key \in RoutedTopics, w \in Windows : BindExisting(key, w)
    \/ \E key \in RoutedTopics : HandleKillTopic(key)
    \/ \E key \in RoutedTopics : UnbindFinish(key)
    \/ \E key \in RoutedTopics, w \in Windows : UnbindAgain(key, w)
    \/ \E i \in MonitorSlots : MonitorEvent(i)
    \/ \E i \in MonitorSlots : MonitorWorkerExit(i)
    \/ PollBegin
    \/ \E e \in polling, shown \in BOOLEAN : PollOne(e, shown)
    \/ \E c \in ChanSlots : SendLoopExit(c)

SpecUnbind == Init /\ [][NextUnbind]_vars

\* unbind(k, binding) returns in this step
UnbindReturns(k) == unbinding[k] # NoUnbind /\ unbinding'[k] = NoUnbind

\* C17: after unbind(key) returns, the store holds no binding and no offset for
\* key, the bound window has no input serializer, no monitor and no pusher are
\* registered for key, no status entry exists for key and the phase is idle;
\* unbind for a key with none of these resources changes nothing else
C17_UnbindLeavesNothing ==
    [][\A k \in Topics :
          /\ UnbindReturns(k)
                => /\ bindings'[k] = NoBinding
                   /\ offsets'[k] = -1
                   /\ sendChans'[unbinding[k].window] = 0
                   /\ monitors'[k] = 0
                   /\ ~pushers'[k]
                   /\ ~statuses'[k]
                   /\ states'[k].phase = "idle"
          /\ (\E w \in Windows : UnbindAgain(k, w))
                => UNCHANGED <<ctlVars, dispVars, offsets, pushers, statuses>>]_vars

\* unbind has returned and topic k is not bound again, yet the store holds an
\* offset for k
C17_OffsetOutlivesUnbind ==
    \E k \in Topics :
       /\ unbinding[k] = NoUnbind
       /\ ~Bound(k)
       /\ monitors[k] = 0
       /\ offsets[k] # -1

-----------------------------------------------------------------------------
\* Graceful shutdown: main after the signal (src/prd/claude-tg-bridge-prd.md),
\* with DrainSendChans, Dispatcher.StopAll and PusherManager.StopAll

\* step 1, cancel(): the root context is cancelled; the status poller's loop
\* and the bot's polling see it at their next select
ShutdownCancel ==
    /\ shutdown.stage = "up"
    /\ shutdown' = [shutdown EXCEPT !.stage = "cancelled"]
    /\ UNCHANGED <<ctlVars, dispVars, pushVars, splitVars, jsonlVars, inputVars, lifeVars, store, auxVars>>

\* DrainSendChans: close(ch) for every entry of b.sendChans; the entries stay
\* and nothing waits for the sendLoops
DrainSendChans(sc, cs) ==
    [c \in ChanSlots |->
        IF \E w \in Windows : sc[w] = c THEN [cs[c] EXCEPT !.closed = TRUE] ELSE cs[c]]

\* step 2: DrainSendChans in a goroutine, main waits for its return (at most 5 s)
ShutdownDrain ==
    /\ shutdown.stage = "cancelled"
    /\ chans' = DrainSendChans(sendChans, chans)
    /\ shutdown' = [shutdown EXCEPT !.stage = "drained"]
    /\ UNCHANGED <<bindings, sendChans, tmuxWindows, sent, written, dispVars, pushVars, splitVars,
                   jsonlVars, inputVars, lifeVars, store, auxVars>>

\* step 3, Dispatcher.StopAll: mon.Stop() for every entry, then an empty map
ShutdownStopMonitors ==
    /\ shutdown.stage = "drained"
    /\ mons' = StopMonitorMons(mons, monitors, Topics)
    /\ monitors' = StopMonitorMap(monitors, Topics)
    /\ shutdown' = [shutdown EXCEPT !.stage = "monitors"]
    /\ UNCHANGED <<ctlVars, pushVars, splitVars, jsonlVars, inputVars, lifeVars, store, auxVars>>

\* step 4, PusherManager.FlushAll (nothing) and StopAll: p.Stop() for every
\* entry, which returns when the pusher's worker has drained and returned
ShutdownStopPushers ==
    /\ shutdown.stage = "monitors"
    /\ pushers' = [k \in Topics |-> FALSE]
    /\ shutdown' = [shutdown EXCEPT !.stage = "pushers"]
    /\ UNCHANGED <<ctlVars, dispVars, pushVars, splitVars, jsonlVars, inputVars, offsets, states,
                   statuses, started, recovery, unbinding, polling, lastText, store, auxVars>>

\* step 5, store.Close(), and main returns
ShutdownClose ==
    /\ shutdown.stage = "pushers"
    /\ shutdown' = [shutdown EXCEPT !.stage = "done"]
    /\ UNCHANGED <<ctlVars, dispVars, pushVars, splitVars, jsonlVars, inputVars, lifeVars, store, auxVars>>

\* StatusPoller.loop takes "case <-ctx.Done()" once pollAll has returned
PollerExit ==
    /\ shutdown.stage # "up"
    /\ shutdown.poller = "running"
    /\ polling = {}
    /\ shutdown' = [shutdown EXCEPT !.poller = "exited"]
    /\ UNCHANGED <<ctlVars, dispVars, pushVars, splitVars, jsonlVars, inputVars, lifeVars, store, auxVars>>

\* the handlers and the poller's ticks, which come while the bot is up
NextUp ==
    \/ \E key \in RoutedTopics : CallbackDir(key, FALSE)
    \/ \E key \in RoutedTopics, bt \in CtlBackends : CreateSession(key, bt, TRUE, TRUE)
    \/ \E key \in RoutedTopics : DefaultHandlerText(key, FALSE, TRUE)
    \/ PollBegin

NextShutdown ==
    \/ shutdown.stage = "up" /\ NextUp
    \/ ShutdownCancel
    \/ ShutdownDrain
    \/ ShutdownStopMonitors
    \/ ShutdownStopPushers
    \/ ShutdownClose
    \/ shutdown.stage # "done" /\ PollerExit
    \/ shutdown.stage # "done" /\ \E e \in polling, shown \in BOOLEAN : PollOne(e, shown)
    \/ shutdown.stage # "done" /\ \E i \in MonitorSlots : MonitorEvent(i)
    \/ shutdown.stage # "done" /\ \E i \in MonitorSlots : MonitorWorkerExit(i)
    \/ shutdown.stage # "done" /\ \E c \in ChanSlots : SendLoopWrite(c)
    \/ shutdown.stage # "done" /\ \E c \in ChanSlots : SendLoopExit(c)

SpecShutdown == Init /\ [][NextShutdown]_vars

SerializersDone == \A c \in ChanSlots : ~chans[c].running
MonitorsDone == \A i \in MonitorSlots : mons[i].state \notin {"running", "cancelled"}
PushersDone == \A k \in Topics : ~pushers[k]
PollerDone == shutdown.poller = "exited"

\* C18: shutdown runs in the order cancel, close every input serializer, stop
\* all monitors, stop all pushers, close the store, and when the sequence has
\* completed every worker (serializers, monitors, pushers, status poller) has
\* terminated
C18_ShutdownTerminatesWorkers ==
    /\ shutdown.stage \in {"drained", "monitors", "pushers", "done"}
          => \A c \in ChanSlots : chans[c].running => chans[c].closed
    /\ shutdown.stage \in {"monitors", "pushers", "done"}
          => \A k \in Topics : monitors[k] = 0
    /\ shutdown.stage = "done"
          => SerializersDone /\ MonitorsDone /\ PushersDone /\ PollerDone

\* main has returned while a sendLoop still holds a text it has not written
C18_DoneWithTextUnwritten ==
    /\ shutdown.stage = "done"
    /\ \E c \in ChanSlots : chans[c].running /\ chans[c].buf # <<>>

-----------------------------------------------------------------------------
\* The store's persister (src/state/store.go): the document in memory is a
\* version number that every change raises, a Save copies the version it
\* marshalled to the file.  os.WriteFile succeeds.

storeRest == <<ctlVars, dispVars, pushVars, splitVars, jsonlVars, inputVars, lifeVars, shutdown, auxVars>>

MutatorOps == {"SetBinding", "DeleteBinding", "SetOffset", "DeleteOffset", "RemoveFavorite", "AddRecent"}

Called(st, op) == [st EXCEPT !.call = [op |-> op, tick |-> 1 - st.call.tick]]

\* a request that is never sent
triggerSaveNever(st) == st

\* triggerSave: a non-blocking send on saveCh, of capacity 1
triggerSave(st) == [st EXCEPT !.saveCh = 1]

\* SetBinding, DeleteBinding, SetOffset, DeleteOffset, RemoveFavorite,
\* AddRecent: write under the lock, then triggerSave
StoreMutate(op) ==
    /\ store.mem < MaxMutations
    /\ store' = triggerSave(Called([store EXCEPT !.mem = @ + 1,
                                                 !.fav = IF op = "RemoveFavorite" THEN FALSE ELSE @],
                                   op))
    /\ UNCHANGED storeRest

\* AddFavorite(path): returns at once when the path is already a favourite
AddFavorite ==
    /\ store.mem < MaxMutations
    /\ store' = IF store.fav
                THEN Called(store, "AddFavorite")
                ELSE triggerSave(Called([store EXCEPT !.mem = @ + 1, !.fav = TRUE], "AddFavorite"))
    /\ UNCHANGED storeRest

\* asyncSaveLoop, "case <-s.saveCh": timer.Reset(500 ms)
LoopTakesRequest ==
    /\ store.loop = "select"
    /\ store.saveCh = 1
    /\ store' = [store EXCEPT !.saveCh = 0, !.timer = "armed"]
    /\ UNCHANGED storeRest

\* asyncSaveLoop, "case <-timer.C": s.Save() begins
LoopTimerFires ==
    /\ store.loop = "select"
    /\ store.timer = "armed"
    /\ store' = [store EXCEPT !.timer = "stopped", !.loop = "saving", !.saves["loop"].pc = "start"]
    /\ UNCHANGED storeRest

\* asyncSaveLoop, "case <-s.done": timer.Stop(); return
LoopExit ==
    /\ store.loop = "select"
    /\ store.done
    /\ store' = [store EXCEPT !.timer = "stopped", !.loop = "exited"]
    /\ UNCHANGED storeRest

\* Save, first half: json.MarshalIndent(s.data) under the read lock
SaveMarshal(who) ==
    /\ store.saves[who].pc = "start"
    /\ store' = [store EXCEPT !.saves[who] = [pc |-> "marshalled", data |-> store.mem]]
    /\ UNCHANGED storeRest

\* Save, second half: os.WriteFile outside the lock, and the return to the
\* caller: asyncSaveLoop goes back to its select, Close returns
SaveWrite(who) ==
    LET d == store.saves[who].data IN
    /\ store.saves[who].pc = "marshalled"
    /\ store' = [store EXCEPT !.saves[who] = NoSave,
                              !.disk = d,
                              !.flushed = IF d > @ THEN d ELSE @,
                              !.last = who,
                              !.loop = IF who = "loop" THEN "select" ELSE @,
                              !.closed = IF who = "close" THEN TRUE ELSE @,
                              !.atClose = IF who = "close" THEN store.mem ELSE @]
    /\ UNCHANGED storeRest

\* Close: close(s.done), then s.Save()
StoreClose ==
    /\ ~store.done
    /\ store' = [store EXCEPT !.done = TRUE, !.saves["close"].pc = "start"]
    /\ UNCHANGED storeRest

NextStore ==
    \/ \E op \in MutatorOps : StoreMutate(op)
    \/ AddFavorite
    \/ LoopTakesRequest
    \/ LoopTimerFires
    \/ LoopExit
    \/ \E who \in Savers : SaveMarshal(who)
    \/ \E who \in Savers : SaveWrite(who)
    \/ StoreClose

\* the goroutines of asyncSaveLoop and of Close's caller are scheduled, and an
\* armed timer fires
FairStore ==
    /\ WF_vars(LoopTakesRequest)
    /\ WF_vars(LoopTimerFires)
    /\ WF_vars(LoopExit)
    /\ \A who \in Savers : WF_vars(SaveMarshal(who)) /\ WF_vars(SaveWrite(who))

SpecStore == Init /\ [][NextStore]_vars /\ FairStore

\* a call of one of the seven mutators returns in this step
StoreCall == store'.call # store.call

\* a Save that marshalled version v or a later one has written the file
Flushed(v) == store.flushed >= v

C20_SingleWriterFinalFlush ==
    /\ ~(store.saves["loop"].pc # "idle" /\ store.saves["close"].pc # "idle")
    /\ store.closed => /\ store.disk = store.atClose
                       /\ store.saves["loop"].pc = "idle"

\* Close has returned and the file holds an older document, written by the
\* background persister after Close's flush
C20_StaleWriteAfterClose ==
    /\ store.closed
    /\ store.last = "loop"
    /\ store.disk < store.atClose

-----------------------------------------------------------------------------
\* The authorization gate (src/bot/bot.go authMiddleware, src/unnamed/part_002
\* auth.Checker): every handler is wrapped by authMiddleware.  An update
\* carries the id of its sender, 0 when it carries none.

IsAllowedAny(allowed, userID) == TRUE

\* Checker.IsAllowed: c.allowedUsers[userID]
IsAllowed(allowed, userID) == userID \in allowed

\* authMiddleware: "if userID == 0 || !b.auth.IsAllowed(userID) { return }"
authMiddleware(allowed, userID) == ~(userID = 0 \/ ~IsAllowed(allowed, userID))

authRest == <<ctlVars, dispVars, pushVars, splitVars, jsonlVars, inputVars, lifeVars, shutdown, store, attempt, diffMon, parser, logFile, lateVars>>

\* an update of user userID reaches authMiddleware, which calls next or returns
UpdateArrives(userID) ==
    /\ update.state # "passed"
    /\ update' = [update EXCEPT !.user = userID,
                                !.state = IF authMiddleware(update.allowed, userID)
                                          THEN "passed" ELSE "dropped"]
    /\ UNCHANGED authRest

\* the handler that next called has returned
UpdateHandled ==
    /\ update.state = "passed"
    /\ \A k \in Topics : unbinding[k] = NoUnbind
    /\ update' = [update EXCEPT !.state = "handled"]
    /\ UNCHANGED authRest

\* the handlers, which run inside next(ctx, tgBot, update)
NextHandler ==
    \/ \E key \in RoutedTopics : HandleNew(key)
    \/ \E key \in RoutedTopics : CallbackDir(key, FALSE)
    \/ \E key \in RoutedTopics, bt \in CtlBackends : CreateSessionRouted(key, bt, TRUE)
    \/ \E key \in RoutedTopics :
          /\ IF ~Bound(key) THEN TRUE ELSE sent[bindings[key].window] = <<>>
          /\ DefaultHandlerText(key, FALSE, TRUE)
    \/ \E key \in RoutedTopics : HandleKillTopic(key)
    \/ \E key \in RoutedTopics : UnbindFinishRouted(key)
    \/ AddFavorite

InitAuth ==
    /\ InitCtl /\ InitDisp /\ InitPush /\ InitSplit /\ InitJSONL /\ InitInput /\ InitLife
    /\ shutdown = ShutdownUp
    /\ store = StoreNew
    /\ attempt = NoAttempt
    /\ diffMon = NoDiffMon
    /\ parser = NoParser
    /\ logFile = NoLogFile
    /\ InitLate
    /\ update \in {NoUpdate(allowed) : allowed \in {{1}, {0, 1}}}

NextAuth ==
    \/ \E userID \in Users : UpdateArrives(userID)
    \/ update.state = "passed" /\ NextHandler
    \/ UpdateHandled

SpecAuth == InitAuth /\ [][NextAuth]_vars

\* what the handlers write: the store's bindings, offsets and directory
\* bookmarks, the phases, the serializers and the texts handed to the terminal
guarded == <<bindings, offsets, store.mem, store.fav, states, sendChans, sent, lastText, unbinding>>

\* C21: an update from a user who is not in allowed_users, or that carries no
\* user id, reaches no handler: it is dropped, and bindings, offsets, directory
\* bookmarks, phases, serializers and terminal input change only while an
\* update of an allowed user is being handled
C21_UnauthorizedReachesNoHandler ==
    [][/\ (update'.state = "passed" /\ update.state # "passed")
             => update'.user # 0 /\ update'.user \in update.allowed
       /\ guarded' # guarded
             => /\ update.state = "passed"
                /\ update.user # 0 /\ update.user \in update.allowed]_vars

\* an update without a user id has been dropped with 0 among the allowed ids,
\* after an allowed user's update had bound the topic
C21_AnonymousDropped ==
    /\ 0 \in update.allowed
    /\ update.user = 0
    /\ update.state = "dropped"
    /\ \E k \in Topics : Bound(k)

-----------------------------------------------------------------------------
\* sendMessage's send of one chunk and editToolMessage (src/bot/stream.go):
\* one invocation with its sendWithRetry / editWithRetry calls, their
\* params.ParseMode and destination, against the rate gate

retryRest == <<ctlVars, dispVars, splitVars, jsonlVars, inputVars, lifeVars, shutdown, store, update, diffMon,
               parser, logFile, lateVars,
               queue, worker, toolMsgIDs, enqueued, delivered, lastCall, failures>>

\* the pusher's chat and the message threads it may be bound to (0: none)
ChatIDs == {5}
ThreadIDs == {0, 7}

\* the fallback send names the chat only
fallbackParamsNoThread(chatID, threadID) == [chat |-> chatID, thread |-> 0]

\* tgbot.SendMessageParams built by sendMessage for a chunk: ChatID is
\* p.chatID, and MessageThreadID is set when p.threadID is not 0
sendParams(chatID, threadID) ==
    [chat |-> chatID, thread |-> IF threadID # 0 THEN threadID ELSE 0]

\* tgbot.SendMessageParams built by editToolMessage after a failed edit
fallbackParams(chatID, threadID) ==
    [chat |-> chatID, thread |-> IF threadID # 0 THEN threadID ELSE 0]

\* tgbot.EditMessageTextParams: the chat and the message id, no thread
editParams(chatID) == [chat |-> chatID, thread |-> 0]

\* what follows an attempt that returned an error: "backoff" when the first
\* attempt got a 429 (parseRetryAfter(err) > 0), "plain" when it got another
\* error with params.ParseMode set, "done" (the error is returned) otherwise
AfterError(pc, parse, outcome) ==
    IF pc # "first" THEN "done"
    ELSE IF outcome = "429" THEN "backoff"
    ELSE IF parse THEN "plain"
    ELSE "done"

\* editToolMessage after editWithRetry returned an error: a new
\* sendWithRetry with HTML parse mode to the pusher's chat and thread
Fallback(a) ==
    [a EXCEPT !.op = "fallback", !.pc = "first", !.parse = TRUE,
              !.dest = fallbackParams(a.chat, a.thread)]

\* sendWithRetry / editWithRetry returned an error
Failed(a) == IF a.op = "edit" THEN Fallback(a) ELSE [a EXCEPT !.pc = "done"]

\* sendMessage reaches sendWithRetry for a chunk, or editToolMessage reaches
\* editWithRetry, in a pusher of the given thread
RetryBegin(op, parse, ChatID, threadID) ==
    /\ attempt.pc \in {"idle", "done"}
    /\ attempt' = [op |-> op, parse |-> parse, pc |-> "first", calls |-> <<>>,
                   chat |-> ChatID, thread |-> threadID, cancelled |-> FALSE,
                   dest |-> IF op = "edit" THEN editParams(ChatID) ELSE sendParams(ChatID, threadID),
                   out |-> <<>>]
    /\ UNCHANGED <<now, pauseUntil, retryRest>>

\* p.tgBot.SendMessage / EditMessageText(ctx, params) returns; a cancelled
\* context fails the call
RetryCall(outcome) ==
    LET next == IF outcome = "ok" THEN "done" ELSE AfterError(attempt.pc, attempt.parse, outcome)
        called == [attempt EXCEPT
                      !.calls = Append(@, [op |-> attempt.op, parse |-> attempt.parse, outcome |-> outcome])]
    IN
    /\ attempt.pc \in {"first", "retry", "plain"}
    /\ attempt.cancelled => outcome = "err"
    /\ attempt' =
          IF outcome = "ok"
          THEN [called EXCEPT !.pc = "done",
                              !.out = Append(@, [kind |-> IF attempt.op = "edit" THEN "edit" ELSE "new",
                                                 dest |-> attempt.dest])]
          ELSE IF next = "done" THEN Failed(called)
          ELSE [called EXCEPT !.pc = next, !.parse = IF next = "plain" THEN FALSE ELSE @]
    /\ UNCHANGED <<now, pauseUntil, retryRest>>

\* p.rateLimiter.BackOff(retryAfter)
RetryBackOff(d) ==
    /\ attempt.pc = "backoff"
    /\ pauseUntil' = now + d
    /\ attempt' = [attempt EXCEPT !.pc = "wait"]
    /\ UNCHANGED <<now, retryRest>>

\* p.rateLimiter.Wait(ctx) returns nil, or ctx.Err() when the context is
\* cancelled during the pause
RetryWait(cancelled) ==
    /\ attempt.pc = "wait"
    /\ IF cancelled THEN Paused ELSE WaitReturns
    /\ attempt' = IF cancelled THEN Failed([attempt EXCEPT !.cancelled = TRUE])
                  ELSE [attempt EXCEPT !.pc = "retry"]
    /\ UNCHANGED <<now, pauseUntil, retryRest>>

NextRetry ==
    \/ \E op \in {"send", "edit"}, parse \in BOOLEAN, chatID \in ChatIDs, threadID \in ThreadIDs :
          RetryBegin(op, parse, chatID, threadID)
    \/ \E outcome \in {"ok", "429", "err"} : RetryCall(outcome)
    \/ \E d \in 1..MaxBackOff : RetryBackOff(d)
    \/ \E cancelled \in BOOLEAN : RetryWait(cancelled)
    \/ Tick

SpecRetry == Init /\ [][NextRetry]_vars

\* the platform call made in this step, and the calls of one sendWithRetry /
\* editWithRetry
MadeCall == Len(attempt'.calls) > Len(attempt.calls)
LastCall(a) == a.calls[Len(a.calls)]
CallsOf(a, op) == SelectSeq(a.calls, LAMBDA c : c.op = op)
\* where the step left the sendWithRetry / editWithRetry that made the call
After(a, b) == IF b.op # a.op THEN "done" ELSE b.pc

\* C22 as stated: a send with parse mode set that fails with a non-throttling
\* error is followed by one retry with parse mode cleared, whichever attempt
\* it was; a non-throttling failure without parse mode, or a failure of that
\* retry, ends the call
C22_FormatErrorAlwaysRetriedPlain ==
    [][MadeCall =>
          LET c == LastCall(attempt') IN
          /\ (c.parse /\ c.outcome = "err") => After(attempt, attempt') = "plain" /\ ~attempt'.parse
          /\ (~c.parse /\ c.outcome = "err") => After(attempt, attempt') = "done"]_vars

\* what the code does: when the first attempt of a send or edit with parse
\* mode set fails with a non-throttling error, exactly one more call follows,
\* with parse mode cleared; a non-throttling failure without parse mode, and
\* any failure of a second attempt (the plain-text one or the one after a
\* 429), ends the call with no further platform call
FirstFormatErrorRetriedPlain ==
    [][/\ MadeCall =>
             LET c == LastCall(attempt') IN
             /\ (attempt.pc = "first" /\ c.parse /\ c.outcome = "err")
                   => After(attempt, attempt') = "plain" /\ ~attempt'.parse
             /\ (~c.parse /\ c.outcome = "err") => After(attempt, attempt') = "done"
             /\ (attempt.pc # "first" /\ c.outcome # "ok") => After(attempt, attempt') = "done"
             /\ attempt.pc = "plain" => ~c.parse /\ Len(CallsOf(attempt, c.op)) = 1
             /\ Len(CallsOf(attempt', c.op)) <= 2
       /\ (attempt'.pc = "plain" /\ attempt.pc # "plain")
             => attempt.pc = "first" /\ attempt.parse /\ MadeCall /\ LastCall(attempt').outcome = "err"
       /\ attempt.pc = "done" => ~MadeCall]_vars

\* a send with parse mode set got a formatting error, was retried as plain
\* text, failed again and was abandoned
PlainRetryFailed ==
    /\ attempt.op = "send"
    /\ attempt.pc = "done"
    /\ attempt.calls = <<[op |-> "send", parse |-> TRUE, outcome |-> "err"],
                         [op |-> "send", parse |-> FALSE, outcome |-> "err"]>>

\* a send with parse mode set was throttled, retried after the pause with
\* parse mode still set, got a formatting error and was abandoned without a
\* plain-text attempt
C22_FormatErrorAfterThrottleDropped ==
    /\ attempt.op = "send"
    /\ attempt.pc = "done"
    /\ attempt.calls = <<[op |-> "send", parse |-> TRUE, outcome |-> "429"],
                         [op |-> "send", parse |-> TRUE, outcome |-> "err"]>>

\* the messages of the invocation that arrived as new messages
NewMessages(a) == SelectSeq(a.out, LAMBDA m : m.kind = "new")

-----------------------------------------------------------------------------
\* The start of the append-log monitor, under SpecJSONL

\* the monitor tracks no file
NothingTracked(m) == \A f \in Paths : m.tracked[f] < 0

\* handleEvent(kind, f) would track f and read it from offset 0 to its end
Adopts(m, kind, f) ==
    LET tg == EventTarget(m, kind, f) IN
    tg.read /\ tg.mon.tracked[f] = 0 /\ readIncrementalMonitor(tg.mon, f).tracked[f] = fsize[f]

\* a log file that is there, outside the baseline of a running monitor that
\* tracks nothing
NewFile(m, f) ==
    /\ m.state = "running" /\ NothingTracked(m)
    /\ fsize[f] >= 0 /\ isJSONLFile(f) /\ f \notin m.baseline

\* StartMonitor resumes the persisted file when it is there, and starts with
\* nothing tracked and every file in the baseline otherwise
StartResumes ==
    StartJSONLMonitor =>
        IF offMem.file # NoPath /\ fsize[offMem.file] >= 0
        THEN /\ offMem.file \notin jm'.baseline
             /\ jm'.tracked[offMem.file] = offMem.off
             /\ jm'.mainFile = offMem.file
        ELSE /\ NothingTracked(jm')
             /\ jm'.mainFile = NoPath
             /\ jm'.baseline = listExistingJSONLFiles

\* C28: StartMonitor with a persisted offset that names a file that is there
\* leaves the file off the baseline, tracked at the stored offset, as the
\* principal file; otherwise the monitor starts with every file there is in
\* the baseline and tracks nothing, and a Create or Write event of a log file
\* outside the baseline then makes it tracked and read from offset 0 to its
\* end.
C28_ResumesOrAdoptsFirstNewFile ==
    /\ [][StartResumes]_vars
    /\ [](\A kind \in {"create", "write"}, f \in Paths : NewFile(jm, f) => Adopts(jm, kind, f))

\* what Start keeps of the claim: the resumed file, and the adoption of the
\* first new file by a monitor that holds no session uuid, or the uuid of
\* the new file
ResumesOrAdoptsOwnSession ==
    /\ [][StartResumes]_vars
    /\ [](\A kind \in {"create", "write"}, f \in Paths :
             (NewFile(jm, f) /\ belongsToSession(jm.sessionUUID, f)) => Adopts(jm, kind, f))

\* C28, the failing case: the persisted file u1.jsonl is gone, the monitor
\* started without it and kept its session uuid, and the new log file
\* u2.jsonl, written after the start, is not tracked
C28_NewFileNotAdopted ==
    /\ jm.state = "running" /\ jm.mainFile = NoPath /\ jm.sessionUUID = "u1"
    /\ NothingTracked(jm)
    /\ fsize[MainPath("u1")] < 0
    /\ fsize[MainPath("u2")] > 0 /\ MainPath("u2") \notin jm.baseline

-----------------------------------------------------------------------------
\* The whole-file diff monitor (src/monitor/json_diff.go): Start, the worker
\* (loop), handleEvent, readAndDiff, and the 30 s timer of a Go 1.21 build,
\* where Timer.Stop leaves a value that was already sent in the channel

diffRest == <<ctlVars, dispVars, pushVars, splitVars, jsonlVars, inputVars, lifeVars, shutdown, store,
              update, attempt, parser, logFile, lateVars>>

MaxEntries == 3
MaxMsgID == 3
MsgIDs == 1..MaxMsgID

\* a GeminiLogEntry: MessageID, Type, and whether Message is non-empty
LogEntries == [id : MsgIDs, type : {"model", "user"}, text : BOOLEAN]

\* readAndDiff, the loop over the parsed array from entry i: an entry of type
\* model whose MessageID is above m.lastMessageID as it is now raises
\* m.lastMessageID, and its Message is collected when it is not empty
RECURSIVE readAndDiffFrom(_, _, _, _)
readAndDiffFrom(entries, i, last, new) ==
    IF i > Len(entries) THEN [last |-> last, new |-> new]
    ELSE IF entries[i].id > last /\ entries[i].type = "model"
    THEN readAndDiffFrom(entries, i + 1, entries[i].id,
                         IF entries[i].text THEN Append(new, i) ELSE new)
    ELSE readAndDiffFrom(entries, i + 1, last, new)

\* readAndDiff: ok is whether logs.json could be read and parsed; the offset
\* is stored and the handler called when texts were collected
readAndDiff(m, ok) ==
    LET r == readAndDiffFrom(m.logs, 1, m.last, <<>>) IN
    IF ~ok THEN m
    ELSE [m EXCEPT !.last = r.last,
                   !.stored = IF r.new # <<>> THEN r.last ELSE @,
                   !.emitted = @ \o r.new,
                   !.read = ~@]

\* Start, and the head of loop: the timer is stopped at once when
\* scanExistingDirs found the hash directory
DiffStart(found, lastMessageID) ==
    /\ diffMon.pc = "idle"
    /\ diffMon' = [diffMon EXCEPT !.pc = "select", !.locked = found, !.inTime = found,
                                  !.timer = IF found THEN "stopped" ELSE "armed",
                                  !.last = lastMessageID, !.stored = lastMessageID]
    /\ UNCHANGED diffRest

\* Stop: cancels the worker's context
DiffStop ==
    /\ diffMon.pc \in {"select", "locking"}
    /\ ~diffMon.cancelled
    /\ diffMon' = [diffMon EXCEPT !.cancelled = TRUE]
    /\ UNCHANGED diffRest

\* the 30 s are over: the runtime sends on timeout.C
TimerFires ==
    /\ diffMon.timer = "armed"
    /\ diffMon' = [diffMon EXCEPT !.timer = "fired"]
    /\ UNCHANGED diffRest

\* the watcher delivers an event: a qualifying directory was created ("dir"),
\* logs.json was written ("logs"), or something else happened ("other")
EventArrives(kind) ==
    /\ diffMon.pc \in {"select", "locking"}
    /\ diffMon.event = "none"
    /\ diffMon' = [diffMon EXCEPT !.event = kind]
    /\ UNCHANGED diffRest

\* the backend appends an entry to logs.json
LogsWrite(e) ==
    /\ Len(diffMon.logs) < MaxEntries
    /\ diffMon' = [diffMon EXCEPT !.logs = Append(@, e)]
    /\ UNCHANGED diffRest

\* loop, "case event := <-watcher.Events", and handleEvent up to the lock or
\* to its end
LoopTakesEvent(ok) ==
    /\ diffMon.pc = "select"
    /\ diffMon.event # "none"
    /\ diffMon' =
          IF ~diffMon.locked
          THEN IF diffMon.event = "dir"
               THEN [diffMon EXCEPT !.event = "none", !.locked = TRUE, !.pc = "locking",
                                    !.inTime = (diffMon.timer = "armed")]
               ELSE [diffMon EXCEPT !.event = "none"]
          ELSE IF diffMon.event = "logs"
               THEN readAndDiff([diffMon EXCEPT !.event = "none"], ok)
               ELSE [diffMon EXCEPT !.event = "none"]
    /\ UNCHANGED diffRest

\* handleEvent after the lock: timeout.Stop(), which keeps a value already
\* sent from being delivered only in builds whose timers are unbuffered
\* (drained), and readAndDiff
HandleEventStop(drained, ok) ==
    /\ diffMon.pc = "locking"
    /\ diffMon' = readAndDiff([diffMon EXCEPT
                                  !.pc = "select",
                                  !.timer = IF @ = "fired" /\ ~drained THEN "fired" ELSE "stopped"], ok)
    /\ UNCHANGED diffRest

\* loop, "case <-timeout.C": the fallback notice, and the worker returns
LoopTimeout ==
    /\ diffMon.pc = "select"
    /\ diffMon.timer = "fired"
    /\ diffMon' = [diffMon EXCEPT !.pc = "exited", !.notices = @ + 1, !.timer = "stopped"]
    /\ UNCHANGED diffRest

\* loop, "case <-ctx.Done()"
LoopCancelled ==
    /\ diffMon.pc = "select"
    /\ diffMon.cancelled
    /\ diffMon' = [diffMon EXCEPT !.pc = "exited"]
    /\ UNCHANGED diffRest

\* SpecJSONDiff: a monitor that found its directory at start, and logs.json
\* growing under it
NextJSONDiff ==
    \/ \E lastMessageID \in 0..1 : DiffStart(TRUE, lastMessageID)
    \/ EventArrives("logs")
    \/ \E e \in LogEntries : LogsWrite(e)
    \/ \E ok \in BOOLEAN : LoopTakesEvent(ok)

SpecJSONDiff == Init /\ [][NextJSONDiff]_vars

\* SpecDiffLoop: the worker between Start and its return, with the timer,
\* the watcher's events and Stop
NextDiffLoop ==
    \/ \E found \in BOOLEAN : DiffStart(found, 0)
    \/ DiffStop
    \/ TimerFires
    \/ \E kind \in {"dir", "logs", "other"} : EventArrives(kind)
    \/ LoopTakesEvent(TRUE)
    \/ \E drained \in BOOLEAN : HandleEventStop(drained, TRUE)
    \/ LoopTimeout
    \/ LoopCancelled

\* the runtime fires an armed timer, a handler that is running goes on, and
\* a select with a ready case takes one; the random choice among ready cases
\* takes the timeout case sooner or later
FairDiffLoop ==
    /\ WF_vars(TimerFires)
    /\ WF_vars(\E drained \in BOOLEAN : HandleEventStop(drained, TRUE))
    /\ SF_vars(LoopTimeout)

SpecDiffLoop == Init /\ [][NextDiffLoop]_vars /\ FairDiffLoop

\* the entries emitted by the step, and the ids of the model entries
EmittedNow == {diffMon'.emitted[i] : i \in (Len(diffMon.emitted) + 1)..Len(diffMon'.emitted)}
ModelIDs(m) == {m.logs[i].id : i \in {j \in 1..Len(m.logs) : m.logs[j].type = "model"}}

\* C26: a reparse of logs.json emits every entry of type model (with a
\* message) whose messageId is above the message_count held before the
\* reparse, wherever it stands in the array; no entry is emitted twice; and
\* message_count becomes the highest messageId seen and never decreases.
C26_EmitsEveryNewModelEntry ==
    [][diffMon'.read # diffMon.read =>
          LET ids == ModelIDs(diffMon) \cup {diffMon.last} IN
          /\ \A i \in 1..Len(diffMon.logs) :
                (diffMon.logs[i].type = "model" /\ diffMon.logs[i].text
                     /\ diffMon.logs[i].id > diffMon.last) => i \in EmittedNow
          /\ \A a, b \in 1..Len(diffMon'.emitted) :
                a # b => diffMon'.emitted[a] # diffMon'.emitted[b]
          /\ diffMon'.last \in ids /\ \A x \in ids : x <= diffMon'.last
          /\ diffMon'.last >= diffMon.last]_vars

\* what readAndDiff keeps: no entry is emitted twice, an emitted entry is a
\* model entry above the message_count held before, and message_count is the
\* highest messageId of a model entry seen and never decreases
ReparseKeepsHighWaterMark ==
    [][diffMon'.read # diffMon.read =>
          LET ids == ModelIDs(diffMon) \cup {diffMon.last} IN
          /\ \A i \in EmittedNow :
                diffMon.logs[i].type = "model" /\ diffMon.logs[i].id > diffMon.last
          /\ \A a, b \in 1..Len(diffMon'.emitted) :
                a # b => diffMon'.emitted[a] # diffMon'.emitted[b]
          /\ diffMon'.last \in ids /\ \A x \in ids : x <= diffMon'.last
          /\ diffMon'.stored <= diffMon'.last /\ diffMon'.stored >= diffMon.stored]_vars

\* C26, the failing case: logs.json holds the model entries 2 and 1 in this
\* order, message_count was 0, and one reparse emitted the first entry only
C26_LowerIdAfterHigherSkipped ==
    /\ diffMon.logs = <<[id |-> 2, type |-> "model", text |-> TRUE],
                        [id |-> 1, type |-> "model", text |-> TRUE]>>
    /\ diffMon.read /\ diffMon.emitted = <<1>> /\ diffMon.last = 2

\* C27: a monitor whose timer fired with no directory locked emits one
\* fallback notice and its worker returns; never more than one notice is
\* emitted; and a monitor that locked a directory before the timer fired (at
\* start or by a creation event) never emits the notice.
C27_NoticeOnlyWithoutLock ==
    /\ [](diffMon.notices <= 1)
    /\ []((diffMon.locked /\ diffMon.inTime) => diffMon.notices = 0)
    /\ ((diffMon.timer = "fired" /\ ~diffMon.locked)
           ~> (diffMon.notices = 1 /\ diffMon.pc = "exited"))

\* C27, the failing case: the directory was locked while the timer was
\* armed, and the worker has emitted the notice and returned
C27_NoticeAfterLockInTime ==
    /\ diffMon.locked /\ diffMon.inTime
    /\ diffMon.notices = 1 /\ diffMon.pc = "exited" /\ ~diffMon.cancelled

-----------------------------------------------------------------------------
\* parseClaudeLine (src/unnamed/part_001) and the monitor's pendingTools

parserRest == <<ctlVars, dispVars, pushVars, splitVars, jsonlVars, inputVars, lifeVars, shutdown, store,
                update, attempt, diffMon, logFile, lateVars>>

MaxLines == 4
MaxBlocks == 2

\* the content blocks of an assistant or user line that matter here
Blocks ==
    [type : {"tool_use"}, id : UseIDs, name : {"", "Bash"}, isError : {FALSE}]
        \cup [type : {"tool_result"}, id : UseIDs, name : {""}, isError : BOOLEAN]
        \cup [type : {"text"}, id : {""}, name : {""}, isError : {FALSE}]

\* parseClaudeLine, one block of msg.Content: a tool_use with a name is
\* entered in pendingTools; a tool_result deletes the entry of its
\* tool_use_id unless is_error is set
parseBlock(ps, b) ==
    IF b.type = "tool_use" /\ b.name # ""
    THEN [ps EXCEPT !.pendingTools[b.id] = b.name, !.open = @ \cup {b.id}, !.last = b]
    ELSE IF b.type = "tool_result"
    THEN [ps EXCEPT !.pendingTools[b.id] = IF b.isError THEN @ ELSE "",
                    !.open = @ \ {b.id}, !.last = b]
    ELSE [ps EXCEPT !.last = b]

\* parseClaudeLine, the loop over msg.Content
RECURSIVE parseClaudeLine(_, _)
parseClaudeLine(ps, blocks) ==
    IF blocks = <<>> THEN ps
    ELSE parseClaudeLine(parseBlock(ps, Head(blocks)), Tail(blocks))

\* readIncremental parses one more line of the log
ParseNextLine(blocks) ==
    /\ parser.lines < MaxLines
    /\ parser' = [parseClaudeLine(parser, blocks) EXCEPT !.lines = @ + 1]
    /\ UNCHANGED parserRest

NextParser ==
    \E n \in 1..MaxBlocks : \E blocks \in [1..n -> Blocks] : ParseNextLine(blocks)

SpecParser == Init /\ [][NextParser]_vars

\* C29: when the last block parsed is a tool_result for u, pendingTools has
\* no entry for u, with is_error set or not; and pendingTools has an entry
\* exactly for the ids of the tool_use blocks parsed whose tool_result has
\* not been parsed since.
C29_ResultConsumesPendingEntry ==
    /\ parser.last.type = "tool_result" => parser.pendingTools[parser.last.id] = ""
    /\ \A u \in UseIDs : parser.pendingTools[u] # "" <=> u \in parser.open

\* what the parser keeps: a tool_result without is_error leaves no entry for
\* its id, an entry is there for every tool_use whose result has not been
\* parsed, and an entry without such a tool_use is there only after a result
\* with is_error
SuccessfulResultConsumes ==
    /\ (parser.last.type = "tool_result" /\ ~parser.last.isError)
          => parser.pendingTools[parser.last.id] = ""
    /\ \A u \in UseIDs : u \in parser.open => parser.pendingTools[u] # ""

\* C29, the failing case: the log held the tool_use u1 and then its
\* tool_result with is_error, and pendingTools still holds u1
C29_ErrorResultLeavesEntry ==
    /\ parser.lines = 2
    /\ parser.last = [type |-> "tool_result", id |-> "u1", name |-> "", isError |-> TRUE]
    /\ parser.pendingTools = [u \in UseIDs |-> IF u = "u1" THEN "Bash" ELSE ""]
    /\ parser.open = {}

-----------------------------------------------------------------------------
\* readIncremental (src/unnamed/part_001) on a log file the backend is
\* appending to.  The file is the sequence of the pieces written: line k
\* arrives as its first part <<k, "a">> and its second part with the newline
\* <<k, "b">>, in one write or in two; <<k, "e">> is an empty line.

logRest == <<ctlVars, dispVars, pushVars, splitVars, jsonlVars, inputVars, lifeVars, shutdown, store,
             update, attempt, diffMon, parser, lateVars>>

MaxLogLines == 3

\* the number of the line being written, or to be written next
NextLine(data) == IF data = <<>> THEN 1
                  ELSE IF data[Len(data)][2] = "a" THEN data[Len(data)][1]
                  ELSE data[Len(data)][1] + 1
MidLine(data) == data # <<>> /\ data[Len(data)][2] = "a"

\* json.Unmarshal of a line: only the two parts of one line together parse
ParsesOK(line) == Len(line) = 2 /\ line[1][2] = "a" /\ line[2][2] = "b" /\ line[1][1] = line[2][1]

\* the scanner's token is parsed, and the outputs and the error count follow
parseLine(r, line) ==
    IF line = <<>> \/ line = <<"empty">> THEN r
    ELSE IF ParsesOK(line) THEN [r EXCEPT !.parsed = Append(@, line[1][1])]
    ELSE [r EXCEPT !.errors = @ + 1]

\* bufio.Scanner with ScanLines over the bytes from piece i on: a token ends
\* at a newline, and what is left at the end of the file is a token too
RECURSIVE scan(_, _, _, _)
scan(data, i, cur, r) ==
    IF i > Len(data) THEN parseLine(r, cur)
    ELSE IF data[i][2] = "a" THEN scan(data, i + 1, Append(cur, data[i]), r)
    ELSE IF data[i][2] = "e" THEN scan(data, i + 1, <<>>, parseLine(r, <<"empty">>))
    ELSE scan(data, i + 1, <<>>, parseLine(r, Append(cur, data[i])))

\* readIncremental(filePath): seek to tracker.byteOffset, scan to the end of
\* the file, parse every non-empty token, and set tracker.byteOffset to the
\* position reached
ReadIncremental ==
    LET r == scan(logFile.data, logFile.byteOffset + 1, <<>>,
                  [parsed |-> logFile.parsed, errors |-> logFile.errors])
    IN
    /\ logFile.byteOffset < Len(logFile.data)
    /\ logFile' = [logFile EXCEPT !.parsed = r.parsed, !.errors = r.errors,
                                  !.byteOffset = Len(logFile.data)]
    /\ UNCHANGED logRest

\* the backend writes: the first part of a line, the rest of a line begun,
\* a whole line, or an empty line
LogAppendPart ==
    /\ ~MidLine(logFile.data) /\ NextLine(logFile.data) <= MaxLogLines
    /\ logFile' = [logFile EXCEPT !.data = Append(@, <<NextLine(logFile.data), "a">>)]
    /\ UNCHANGED logRest

LogAppendRest ==
    /\ MidLine(logFile.data)
    /\ logFile' = [logFile EXCEPT !.data = Append(@, <<NextLine(logFile.data), "b">>)]
    /\ UNCHANGED logRest

LogAppendLine ==
    /\ ~MidLine(logFile.data) /\ NextLine(logFile.data) <= MaxLogLines
    /\ logFile' = [logFile EXCEPT !.data = @ \o <<<<NextLine(logFile.data), "a">>,
                                                   <<NextLine(logFile.data), "b">>>>]
    /\ UNCHANGED logRest

LogAppendEmpty ==
    /\ ~MidLine(logFile.data) /\ NextLine(logFile.data) <= MaxLogLines
    /\ logFile' = [logFile EXCEPT !.data = Append(@, <<NextLine(logFile.data), "e">>)]
    /\ UNCHANGED logRest

NextLog ==
    \/ ReadIncremental
    \/ LogAppendPart
    \/ LogAppendRest
    \/ LogAppendLine
    \/ LogAppendEmpty

SpecLog == Init /\ [][NextLog]_vars

\* the non-empty lines that lie whole before position n, in file order
LinesBefore(data, n) ==
    LET ends == SelectSeq([i \in 1..n |-> i], LAMBDA i : data[i][2] = "b")
    IN  [j \in 1..Len(ends) |-> data[ends[j]][1]]

\* C30: whatever the interleaving of appends and reads, the lines parsed are
\* the non-empty lines that lie whole before the tracker's offset, each once
\* and in file order: a read that meets a line written in part does not lose
\* it.
C30_EveryLineParsedOnce ==
    logFile.parsed = LinesBefore(logFile.data, logFile.byteOffset)

\* what readIncremental keeps: no line is parsed twice, the lines parsed are
\* in file order, and a line is missing only when a read met it in part
ParsedOnceInOrder ==
    /\ \A a, b \in 1..Len(logFile.parsed) : a < b => logFile.parsed[a] < logFile.parsed[b]
    /\ \A a \in 1..Len(logFile.parsed) :
          \E j \in 1..Len(LinesBefore(logFile.data, logFile.byteOffset)) :
              LinesBefore(logFile.data, logFile.byteOffset)[j] = logFile.parsed[a]
    /\ Len(LinesBefore(logFile.data, logFile.byteOffset)) - Len(logFile.parsed) <= logFile.errors

\* C30, the failing case: line 1 was read when only its first part was
\* written and again when the rest had come, and is parsed by neither read
C30_LineReadInPartLost ==
    /\ logFile.data = <<<<1, "a">>, <<1, "b">>>>
    /\ logFile.byteOffset = 2
    /\ logFile.parsed = <<>>
    /\ logFile.errors = 2

-----------------------------------------------------------------------------
\* SpecDrain: one topic's pusher stopped while its worker is at its select
\* with tasks queued (StreamPusher.Stop, worker and drain, src/bot/stream.go)

DrainInputs == {<<"text", 1>>, <<"text", 3>>, <<"tool_use", 1>>}

\* Stop is called while the worker waits at its select
StopAtSelect(p) ==
    /\ worker[p].pc = "select"
    /\ PusherStop(p)

NextDrain ==
    \/ \E in \in DrainInputs : Enqueue("t1", in[1], in[2])
    \/ WorkerTake("t1")
    \/ WorkerMerge("t1")
    \/ Wait("t1")
    \/ \E outcome \in {"ok", "429", "err"} : ApiCall("t1", outcome)
    \/ \E d \in 1..MaxBackOff : BackOff("t1", d)
    \/ StopAtSelect("t1")
    \/ WorkerCancelled("t1")
    \/ WorkerDrain("t1")
    \/ Tick

SpecDrain == Init /\ [][NextDrain]_vars

\* C31: once the pusher's context is cancelled, a task leaves the queue only
\* by drain, which takes the head of the queue and hands it to sendMessage
\* under drain's own context; the worker exits only with its queue empty;
\* and Stop's wait ends only with the worker's exit (the worker is "stopped"
\* only after drain).
C31_QueueDrainedOnCancel ==
    [][\A p \in Topics :
          LET wk == worker[p]
              nwk == worker'[p]
          IN
          /\ (wk.mode = "cancelled" /\ enqueued'[p] = enqueued[p]) => queue'[p] = queue[p]
          /\ (wk.mode = "drain" /\ queue'[p] # queue[p] /\ enqueued'[p] = enqueued[p]) =>
                /\ queue[p] # <<>> /\ queue'[p] = Tail(queue[p])
                /\ nwk.task = Head(queue[p]) /\ nwk.mode = "drain"
          /\ (nwk.mode = "stopped" /\ wk.mode # "stopped") =>
                wk.mode = "drain" /\ queue[p] = <<>>]_vars

\* what drain keeps: a task that drain takes is the head of the queue and is
\* handed to sendMessage under drain's context, and the worker exits only
\* from drain with its queue empty
DrainTakesInOrder ==
    [][\A p \in Topics :
          LET wk == worker[p]
              nwk == worker'[p]
          IN
          /\ (wk.mode = "drain" /\ queue'[p] # queue[p] /\ enqueued'[p] = enqueued[p]) =>
                /\ queue[p] # <<>> /\ queue'[p] = Tail(queue[p])
                /\ nwk.task = Head(queue[p]) /\ nwk.mode = "drain"
          /\ (nwk.mode = "stopped" /\ wk.mode # "stopped") =>
                wk.mode = "drain" /\ queue[p] = <<>>]_vars

\* C31, the failing case: two texts were queued when Stop was called at the
\* worker's select; the worker has exited, its queue is empty, nothing was
\* delivered and no send failed under drain's context
C31_QueuedTasksNeverSent ==
    /\ worker["t1"].mode = "stopped"
    /\ enqueued["t1"] = 2 /\ queue["t1"] = <<>>
    /\ delivered["t1"] = <<>> /\ failures = 0

-----------------------------------------------------------------------------
\* SpecStatus: the status poller (src/unnamed/part_000) over a running claude
\* binding and a bash or disconnected one, beside a handler that unbinds the
\* first once its backend has exited, and the first topic's pusher

MaxStatus == 2
MaxPaneChanges == 3

\* PusherManager.HasPending: "return ok && len(p.queue) > 0"
HasPending(key) == pushers[key] /\ queue[key] # <<>>

\* tmux CapturePaneClean and extractStatusLine: the last non-empty line of the
\* window's pane, 0 when the capture fails or the pane shows nothing
StatusLine(w) == IF IsWindowAlive(w) THEN status.pane[w] ELSE 0

statusOther == <<ctlVars, dispVars, pushVars, splitVars, jsonlVars, inputVars, shutdown, store, update,
                 attempt, diffMon, parser, logFile, dirs, inHand>>
statusRest == <<statusOther, offsets, states, pushers, started, recovery, unbinding, lastText>>

\* the backend prints: the pane's last line becomes s
PaneShows(w, s) ==
    /\ tmuxWindows[w] = "backend"
    /\ status.changes < MaxPaneChanges
    /\ s # status.pane[w]
    /\ status' = [status EXCEPT !.pane[w] = s, !.changes = @ + 1]
    /\ UNCHANGED <<statusOther, lifeVars>>

\* StatusPoller.loop, a tick: pollAll takes its snapshot of the bindings once
\* the pollOne of the tick before has returned
StatusPollAll ==
    /\ status.call = NoStatusCall
    /\ PollBegin

\* pollOne(ctx, key, binding) up to its platform call: HasPending, the capture,
\* the entry looked up or made under the mutex, the comparison with LastText
StatusPollOne(e) ==
    LET k == e.key
        statusText == StatusLine(e.window)
        entry == IF statuses[k] THEN status.entries[k] ELSE NewStatusEntry
    IN
    /\ e \in polling
    /\ status.call = NoStatusCall
    /\ polling' = polling \ {e}
    /\ IF HasPending(k) \/ statusText = 0
       THEN UNCHANGED <<statuses, status>>
       ELSE /\ statuses' = [statuses EXCEPT ![k] = TRUE]
            /\ IF statusText = entry.LastText
               THEN status' = [status EXCEPT !.entries[k] = entry]
               ELSE status' = [status EXCEPT
                       !.entries[k] = [entry EXCEPT !.LastText = statusText],
                       !.call = [key |-> k, op |-> IF entry.MessageID = 0 THEN "send" ELSE "edit",
                                 text |-> statusText],
                       !.failed[k] = IF entry.MessageID = 0 /\ @ = statusText THEN 0 ELSE @]
    /\ UNCHANGED statusRest

\* pollOne, the platform call returns: SendMessage's id is kept in the entry,
\* a failed EditMessageText drops the id.  The entry is the one pollOne holds,
\* which RemoveStatus may have taken out of the map meanwhile.
StatusCallReturns(ok) ==
    LET c == status.call
        k == c.key
        id == status.ids + 1
        inMap == statuses[k]
    IN
    /\ c # NoStatusCall
    /\ status' = [status EXCEPT
            !.call = NoStatusCall,
            !.ids = IF c.op = "send" /\ ok THEN id ELSE @,
            !.entries[k].MessageID = IF ~inMap THEN @
                                     ELSE IF c.op = "send" /\ ok THEN id
                                     ELSE IF c.op = "edit" /\ ~ok THEN 0
                                     ELSE @,
            !.failed[k] = IF c.op = "edit" /\ ~ok THEN c.text ELSE @]
    /\ UNCHANGED <<statusOther, lifeVars>>

\* a text message for a topic whose backend has exited: defaultHandler unbinds
TextAfterExit(key) ==
    /\ Bound(key)
    /\ LivenessFails(bindings[key].window)
    /\ DefaultHandlerText(key, FALSE, FALSE)

RunningClaude(w) == [window |-> w, backend |-> "claude", status |-> "running"]

\* What createSession and recoverBindings leave: t1 bound to a running claude
\* session with its pusher, t2 to a bash session or to a window that was gone
\* at startup
InitStatus ==
    /\ InitDisp /\ InitPush /\ InitSplit /\ InitJSONL /\ InitInput /\ InitEnd
    /\ \E b2 \in {[window |-> 2, backend |-> "bash", status |-> "running"],
                  [window |-> 2, backend |-> "claude", status |-> "disconnected"]} :
          /\ bindings = [k \in Topics |-> IF k = "t1" THEN RunningClaude(1) ELSE b2]
          /\ tmuxWindows = [w \in Windows |-> IF w = 1 THEN "backend"
                                              ELSE IF b2.status = "running" THEN "shell" ELSE "dead"]
    /\ sendChans = [w \in Windows |-> 0]
    /\ chans = [c \in ChanSlots |-> FreeChan]
    /\ sent = [w \in Windows |-> <<>>]
    /\ written = [w \in Windows |-> <<>>]
    /\ states = [k \in Topics |-> [phase |-> "bound", dir |-> FALSE]]
    /\ pushers = [k \in Topics |-> k = "t1"]
    /\ statuses = [k \in Topics |-> FALSE]
    /\ started = [k \in Topics |-> -1]
    /\ unbinding = [k \in Topics |-> NoUnbind]
    /\ polling = {}
    /\ lastText = NoText
    /\ offsets = [k \in Topics |-> -1]
    /\ recovery = [stage |-> "done", keys |-> {}]

NextStatus ==
    \/ \E s \in 0..MaxStatus : PaneShows(1, s)
    \/ StatusPollAll
    \/ \E e \in polling : StatusPollOne(e)
    \/ \E ok \in BOOLEAN : StatusCallReturns(ok)
    \/ BackendExits(1)
    \/ TextAfterExit("t1")
    \/ UnbindFinish("t1")
    \/ Enqueue("t1", "text", 1)
    \/ WorkerTake("t1")
    \/ WorkerMerge("t1")
    \/ Wait("t1")
    \/ ApiCall("t1", "ok")

\* the ticker keeps firing and each pollOne and each platform call returns
FairStatus ==
    /\ WF_vars(StatusPollAll)
    /\ WF_vars(\E e \in polling : StatusPollOne(e))
    /\ WF_vars(\E ok \in BOOLEAN : StatusCallReturns(ok))

SpecStatus == InitStatus /\ [][NextStatus]_vars /\ FairStatus

\* pollOne starts a platform call for topic k in this step
StatusIssued(k) == status.call = NoStatusCall /\ status'.call # NoStatusCall /\ status'.call.key = k

\* unbind(k) has returned and k has not been bound since
Unbound(k) == ~Bound(k) /\ unbinding[k] = NoUnbind

\* C32: the status poller issues no call for a binding that is bash or
\* disconnected or whose pusher queue holds a task; a call it issues is for a
\* status line that differs from LastText, a new message when the entry holds
\* no message id and an edit of the cached message otherwise; a status whose
\* edit failed is then sent as a new message (unless the pane has moved on or
\* the topic was unbound); after unbind no message id remains cached
C32_StatusIssuedAndCached ==
    /\ [][\A k \in Topics :
            StatusIssued(k) =>
                /\ Bound(k) => bindings[k].backend # "bash" /\ bindings[k].status # "disconnected"
                /\ ~HasPending(k)
                /\ status'.call.text # 0
                /\ status'.call.text # (IF statuses[k] THEN status.entries[k].LastText ELSE 0)
                /\ status'.call.op = (IF statuses[k] /\ status.entries[k].MessageID # 0
                                      THEN "edit" ELSE "send")]_vars
    /\ \A k \in Topics : \A s \in 1..MaxStatus :
          (status.failed[k] = s) ~> (\/ status.failed[k] # s
                                     \/ ~Bound(k)
                                     \/ StatusLine(bindings[k].window) # s)
    /\ [](\A k \in Topics : Unbound(k) => ~(statuses[k] /\ status.entries[k].MessageID # 0))

\* what pollOne does when it issues a call: the skips, the choice between a
\* new message and an edit, one entry per topic
StatusIssuedRight ==
    [][\A k \in Topics :
          StatusIssued(k) =>
              /\ Bound(k) => bindings[k].backend # "bash" /\ bindings[k].status # "disconnected"
              /\ ~HasPending(k)
              /\ status'.call.text # (IF statuses[k] THEN status.entries[k].LastText ELSE 0)
              /\ status'.call.op = (IF statuses[k] /\ status.entries[k].MessageID # 0
                                    THEN "edit" ELSE "send")]_vars

\* the edit of status line 1 failed, the pane still shows it, and the poller,
\* its entry holding the line as LastText and no message id, is between ticks
C32_FailedEditNeverResent ==
    /\ status.failed["t1"] = 1
    /\ Bound("t1") /\ StatusLine(bindings["t1"].window) = 1
    /\ statuses["t1"]
    /\ status.entries["t1"] = [MessageID |-> 0, LastText |-> 1]
    /\ status.call = NoStatusCall /\ polling = {}

-----------------------------------------------------------------------------
\* SpecRecent: Store.AddRecent (src/state/store.go) over the recent list a
\* state file of an earlier run can hold

MaxDirs == 4
DirPaths == 1..MaxDirs

\* no path occurs twice in list
NoDuplicate(list) == \A a, b \in 1..Len(list) : a # b => list[a] # list[b]

\* the paths of list other than path, in list's order
RECURSIVE filtered(_, _)
filtered(list, path) ==
    IF list = <<>> THEN <<>>
    ELSE IF Head(list) # path THEN <<Head(list)>> \o filtered(Tail(list), path)
    ELSE filtered(Tail(list), path)

\* "s.data.Dirs.Recent[:s.recentMax]" when the list is longer
truncate(list, max) == IF Len(list) > max THEN SubSeq(list, 1, max) ELSE list

\* AddRecent that puts the path in front of the list as it is
addRecentKeepsCopy(list, path, max) == truncate(<<path>> \o list, max)

\* AddRecent: the list without path, path put in front, cut to recentMax
addRecent(list, path, max) == truncate(<<path>> \o filtered(list, path), max)

recentRest == <<ctlVars, dispVars, pushVars, splitVars, jsonlVars, inputVars, lifeVars, shutdown, store,
                update, attempt, diffMon, parser, logFile, status, inHand>>

\* Store.AddRecent(path)
AddRecent(path) ==
    /\ dirs' = [dirs EXCEPT !.Recent = addRecent(@, path, dirs.recentMax),
                            !.path = path, !.before = dirs.Recent]
    /\ UNCHANGED recentRest

\* the lists an earlier run, whatever its recent_max was, can have saved
SavedRecents == {l \in UNION {[1..n -> DirPaths] : n \in 0..MaxDirs} : NoDuplicate(l)}

InitRecent ==
    /\ InitCtl /\ InitDisp /\ InitPush /\ InitSplit /\ InitJSONL /\ InitInput /\ InitLife
    /\ shutdown = ShutdownUp /\ store = StoreNew
    /\ update = NoUpdate({1}) /\ attempt = NoAttempt /\ diffMon = NoDiffMon /\ parser = NoParser
    /\ logFile = NoLogFile
    /\ status = NoStatus /\ inHand = [k \in Topics |-> 0]
    /\ dirs \in [recentMax : 1..MaxRecent, Recent : SavedRecents, path : {0}, before : {<<>>}]

NextRecent == \E path \in DirPaths : AddRecent(path)

SpecRecent == InitRecent /\ [][NextRecent]_vars

\* the place of path x in list
IndexOf(list, x) == CHOOSE i \in 1..Len(list) : list[i] = x

\* C33: after AddRecent calls with recentMax >= 1 the recent list has no path
\* twice, at most recentMax entries, the path added last in front, and the
\* other paths are paths of the list before, in the order they had there
C33_RecentAfterAddRecent ==
    dirs.path # 0 =>
        LET l == dirs.Recent
            old == dirs.before
            others == {l[i] : i \in 2..Len(l)}
        IN  /\ NoDuplicate(l)
            /\ Len(l) <= dirs.recentMax
            /\ l # <<>> /\ l[1] = dirs.path
            /\ \A x \in others : \E j \in 1..Len(old) : old[j] = x
            /\ \A x, y \in others :
                  IndexOf(l, x) < IndexOf(l, y) <=> IndexOf(old, x) < IndexOf(old, y)

\* a path from the middle of a full list was added again: it moved to the
\* front and the others kept their order
C33_ReAddedPathMovedToFront ==
    /\ dirs.recentMax = 3
    /\ dirs.before = <<1, 2, 3>>
    /\ dirs.path = 2
    /\ dirs.Recent = <<2, 1, 3>>

-----------------------------------------------------------------------------
\* SpecSendChan: handlers that forward a text, "ch := b.getOrCreateSendChan(w)"
\* and then "ch <- text" (src/bot/handlers.go), beside unbind's closeSendChan
\* and the shutdown's DrainSendChans (src/bot/bot.go)

sendChanRest == <<dispVars, pushVars, splitVars, jsonlVars, inputVars, lifeVars, shutdown, store, update,
                  attempt, diffMon, parser, logFile, status, dirs>>

\* defaultHandler for a text of a bound topic whose window and backend are
\* alive, up to "ch := b.getOrCreateSendChan(binding.WindowID)"
HandlerGets(key) ==
    LET w == bindings[key].window IN
    /\ shutdown.stage = "up"
    /\ Bound(key)
    /\ ~LivenessFails(w)
    /\ inHand[key] = 0
    /\ sendChans[w] = 0 => HasFreeChan(chans)
    /\ sendChans' = getOrCreateSendChanMap(sendChans, chans, w)
    /\ chans' = getOrCreateSendChanChans(sendChans, chans, w)
    /\ inHand' = [inHand EXCEPT ![key] = sendChans'[w]]
    /\ UNCHANGED <<bindings, tmuxWindows, sent, written, sendChanRest>>

\* the channel the handler of key holds was closed: by closeSendChan, which
\* also took it out of the map, or by DrainSendChans, which left it there
HeldClosed(key) ==
    LET c == inHand[key] IN
    \/ chans[c].closed
    \/ \A w \in Windows : sendChans[w] # c

\* the handler's "ch <- text" on a channel that is open and has room
HandlerSends(key) ==
    LET c == inHand[key]
        w == chans[c].window
    IN
    /\ c # 0
    /\ ~HeldClosed(key)
    /\ Len(sent[w]) < MaxTexts
    /\ Len(chans[c].buf) < ChanCap
    /\ chans' = [chans EXCEPT ![c].buf = Append(@, Len(sent[w]) + 1)]
    /\ sent' = [sent EXCEPT ![w] = Append(@, Len(@) + 1)]
    /\ inHand' = [inHand EXCEPT ![key] = 0]
    /\ UNCHANGED <<bindings, sendChans, tmuxWindows, written, sendChanRest>>

\* the handler of key is at "ch <- text" with a closed channel: the send panics
SendsOnClosed(key) == inHand[key] # 0 /\ HeldClosed(key)

\* unbind(key) is at closeSendChan, the map has an entry for its window, and
\* the entry's channel is closed already: "close(ch)" panics
ClosesClosed(key) ==
    LET u == unbinding[key] IN
    /\ u # NoUnbind
    /\ sendChans[u.window] # 0
    /\ chans[sendChans[u.window]].closed

\* the rest of unbind, where closeSendChan does not panic
UnbindFinishOpen(key) ==
    /\ ~ClosesClosed(key)
    /\ UnbindFinish(key)

\* a sendLoop returns; a channel still in a handler's hand keeps its place
SendLoopExitFree(c) ==
    /\ \A k \in Topics : inHand[k] # c
    /\ \A w \in Windows : sendChans[w] # c
    /\ SendLoopExit(c)

\* Two topics bound by createSession to running claude sessions, no text
\* forwarded yet
InitSendChan ==
    /\ InitDisp /\ InitPush /\ InitSplit /\ InitJSONL /\ InitInput /\ InitEnd
    /\ bindings = [k \in Topics |-> RunningClaude(IF k = "t1" THEN 1 ELSE 2)]
    /\ tmuxWindows = [w \in Windows |-> "backend"]
    /\ sendChans = [w \in Windows |-> 0]
    /\ chans = [c \in ChanSlots |-> FreeChan]
    /\ sent = [w \in Windows |-> <<>>]
    /\ written = [w \in Windows |-> <<>>]
    /\ states = [k \in Topics |-> [phase |-> "bound", dir |-> FALSE]]
    /\ pushers = [k \in Topics |-> FALSE]
    /\ statuses = [k \in Topics |-> FALSE]
    /\ started = [k \in Topics |-> -1]
    /\ unbinding = [k \in Topics |-> NoUnbind]
    /\ polling = {}
    /\ lastText = NoText
    /\ offsets = [k \in Topics |-> -1]
    /\ recovery = [stage |-> "done", keys |-> {}]

NextSendChan ==
    \/ \E key \in Topics : HandlerGets(key)
    \/ \E key \in Topics : HandlerSends(key)
    \/ \E key \in Topics : HandleKillTopic(key)
    \/ \E key \in Topics : UnbindFinishOpen(key)
    \/ ShutdownCancel
    \/ ShutdownDrain
    \/ \E c \in ChanSlots : SendLoopWrite(c)
    \/ \E c \in ChanSlots : SendLoopExitFree(c)

SpecSendChan == InitSendChan /\ [][NextSendChan]_vars

\* C34: no handler that got a window's channel from getOrCreateSendChan is
\* left to send on it once closeSendChan or DrainSendChans has closed it, and
\* no closeSendChan finds in the map a channel DrainSendChans closed
C34_NoSendOnClosedNoCloseTwice ==
    \A k \in Topics : ~SendsOnClosed(k) /\ ~ClosesClosed(k)

\* /kill closed the channel of topic t1's window between a handler's
\* getOrCreateSendChan and its send, with no shutdown under way
C34_HandlerHoldsClosedChannel ==
    /\ shutdown.stage = "up"
    /\ inHand["t1"] # 0
    /\ chans[inHand["t1"]].closed
    /\ sendChans[1] = 0
    /\ ~Bound("t1") /\ unbinding["t1"] = NoUnbind

-----------------------------------------------------------------------------
\* The stopped monitor's worker after unbind has returned (SpecUnbind)

\* C35: once unbind(k) has returned and until k is bound again, no step gives
\* the store an offset for k or the pusher registry a pusher for k
C35_StoppedMonitorLeavesNothing ==
    [][\A k \in Topics :
          (Unbound(k) /\ ~Bound(k)' /\ unbinding'[k] = NoUnbind)
              => /\ offsets[k] = -1 => offsets'[k] = -1
                 /\ ~pushers[k] => pushers'[k] = FALSE]_vars

\* unbind(t1) has returned leaving neither offset nor pusher, and the worker
\* of the monitor it stopped has since published an offset and got a pusher
C35_WorkerWroteAfterUnbind ==
    /\ Unbound("t1")
    /\ monitors["t1"] = 0
    /\ states["t1"].phase = "idle"
    /\ offsets["t1"] = 1
    /\ pushers["t1"]
    /\ \E i \in MonitorSlots : mons[i].topic = "t1" /\ mons[i].state = "cancelled"

-----------------------------------------------------------------------------
\* SpecGiveUp: the dispatcher with a whole-file diff monitor whose worker
\* returns at its 30 s timeout (JSONDiffMonitor.loop, src/monitor/json_diff.go)

\* loop, "case <-timeout.C": the notice is handed to the handler and the
\* worker returns; the dispatcher is not told and no PaneMonitor is started
MonitorGivesUp(i) ==
    /\ mons[i].kind = "jsondiff"
    /\ mons[i].state = "running"
    /\ mons' = [mons EXCEPT ![i].state = "gaveup"]
    /\ UNCHANGED <<ctlVars, pushVars, splitVars, jsonlVars, restVars, monitors>>

NextGiveUp ==
    \/ \E key \in Topics, bt \in {"gemini", "bash"}, startOK \in BOOLEAN :
          StartMonitor(key, bt, startOK)
    \/ \E key \in Topics : StopMonitor(key)
    \/ \E i \in MonitorSlots : MonitorWorkerExit(i)
    \/ \E i \in MonitorSlots : MonitorGivesUp(i)

SpecGiveUp == Init /\ [][NextGiveUp]_vars

\* C36: every monitor registered in d.monitors has a running worker (Stop
\* takes it out of the map); a topic whose diff monitor gave up at the timeout
\* is not left registered with that monitor, without a running screen-diff
\* monitor
C36_RegisteredMonitorHasWorker ==
    \A k \in Topics : monitors[k] # 0 => mons[monitors[k]].state = "running"

\* the worker of every registered monitor that did not give up is running
RegisteredRunsUnlessGaveUp ==
    \A k \in Topics : monitors[k] # 0 => mons[monitors[k]].state \in {"running", "gaveup"}

\* topic t1's registered monitor is a diff monitor whose worker has returned
\* at the timeout, and no screen-diff monitor of t1 is running
C36_GaveUpMonitorStillRegistered ==
    /\ monitors["t1"] # 0
    /\ mons[monitors["t1"]].kind = "jsondiff"
    /\ mons[monitors["t1"]].state = "gaveup"
    /\ \A i \in MonitorSlots : ~(mons[i].topic = "t1" /\ mons[i].kind = "pane" /\ mons[i].state = "running")

-----------------------------------------------------------------------------
\* A bash session under defaultHandler's and recoverBindings' liveness probes
\* (SpecRouting, SpecRecover)

\* topic k is bound to a bash session whose window is there and whose pane
\* runs the shell
BashSessionAlive(k) ==
    /\ Bound(k)
    /\ bindings[k].backend = "bash"
    /\ IsWindowAlive(bindings[k].window)
    /\ PaneCommand(bindings[k].window) \in Shells

\* recoverBindings handles the binding of k in this step
RecoversKey(k) == recovery.stage = "run" /\ k \in recovery.keys /\ k \notin recovery'.keys

\* C37: a topic bound to a bash session whose window is alive and whose pane
\* runs its shell stays bound: a text arriving in phase idle or bound is
\* written to the window (queued, or sent as keys) and the binding is kept,
\* and recoverBindings keeps the binding and starts its screen-diff monitor
C37_BashTopicStaysBound ==
    [][\A k \in Topics :
          BashSessionAlive(k) =>
              /\ (TextArrives(k) /\ states[k].phase \in {"idle", "bound"})
                    => /\ lastText'.did \in {"queued", "keys"}
                       /\ bindings'[k] = bindings[k]
              /\ RecoversKey(k)
                    => /\ bindings'[k] = bindings[k]
                       /\ monitors'[k] # 0
                       /\ mons'[monitors'[k]].kind = "pane"]_vars

\* createSession has bound t1 to a bash session, the shell runs in its live
\* window, and the probes of defaultHandler count the backend as exited
C37_BashShellCountsAsExited ==
    /\ BashSessionAlive("t1")
    /\ bindings["t1"].status = "running"
    /\ states["t1"].phase = "bound"
    /\ ~IsBackendAlive(bindings["t1"].window)
    /\ LivenessFails(bindings["t1"].window)

-----------------------------------------------------------------------------
\* The backend-selection callback outside the creation flow (SpecRouting)

\* the "backend:<type>" callback of topic k makes a window and binds k to it
\* in this step
SessionCreated(k) ==
    \E w \in Windows :
       /\ tmuxWindows[w] = "absent" /\ tmuxWindows'[w] # "absent"
       /\ bindings'[k] # NoBinding /\ bindings'[k].window = w

\* C38: a backend-selection callback creates a window and a binding only in
\* phase awaiting_backend with a directory selected; in phase idle or bound,
\* with the directory of an earlier flow still stored, it creates no window
\* and leaves the binding and the serializers as they are
C38_SessionOnlyWhenAwaitingBackend ==
    [][\A k \in Topics :
          SessionCreated(k) => states[k].phase = "awaiting_backend" /\ states[k].dir]_vars

\* topic t1 is bound in phase bound, the directory of the flow that made its
\* session is still stored, and a window can be made: all createSession asks for
C38_LeftoverDirWhileBound ==
    /\ Bound("t1")
    /\ IsWindowAlive(bindings["t1"].window)
    /\ states["t1"].phase = "bound"
    /\ states["t1"].dir
    /\ \E w \in Windows : tmuxWindows[w] = "absent"

-----------------------------------------------------------------------------
\* The rate gate under BackOff calls of two pushers (SpecGate)

\* C39: no step moves the gate's pauseUntil to an earlier time: a BackOff
\* with a smaller retry-after does not shorten the pause another set
C39_PauseNeverMovesEarlier == [][pauseUntil' >= pauseUntil]_vars

\* the gate is paused for more than the shortest retry-after to come, and
\* the pusher of t2, whose call was throttled too, is about to call BackOff
C39_SecondBackOffPending ==
    /\ pauseUntil > now + 1
    /\ worker["t1"].pc = "rewait"
    /\ worker["t2"].pc = "backoff"

-----------------------------------------------------------------------------
\* SpecChunks: splitMessage (src/bot/stream.go) on every text of the token
\* alphabet, the empty one included, with every limit from 1 to MsgLimit

\* splitMessage(text, maxLen) is called and returns
SplitWith(maxLen) ==
    /\ msgType = ""
    /\ msgType' = "chunks"
    /\ outTexts' = splitMessage(msgText, maxLen)
    /\ UNCHANGED <<ctlVars, dispVars, pushVars, jsonlVars, restVars, msgText>>

InitChunks ==
    /\ InitCtl /\ InitDisp /\ InitPush /\ InitJSONL /\ InitRest
    /\ msgText \in TokenTexts \cup {<<>>}
    /\ msgType = ""
    /\ outTexts = <<>>

NextChunks == \E maxLen \in 1..MsgLimit : SplitWith(maxLen)

SpecChunks == InitChunks /\ [][NextChunks]_vars

====
